---- MODULE Spec2Model ----
(***************************************************************************)
(* Model of the switchboard/sixerr provider plugin:                        *)
(*   - PluginClient (src/src/client/provider/ws/ws-client.ts): the         *)
(*     connection / authentication / reconnection state machine;           *)
(*   - computeBackoff (src/src/client/provider/ws/reconnect.ts);           *)
(*   - ServerMessageSchema (src/src/client/auth/programmatic.ts);          *)
(*   - handleIncomingRequest (src/src/relay/request-forwarder.ts) with     *)
(*     streamFromOpenClaw / forwardToOpenClaw and the node:http callbacks. *)
(*   - SixerrClient.respond/respondRaw with signPermit2Payment             *)
(*     (src/unnamed/part_005) and the proxy's handleResponses              *)
(*     (src/unnamed/part_004).                                             *)
(* Sockets are the WebSocket objects the client creates; each keeps its    *)
(* own handlers, so events of an old socket still run the client's code.   *)
(***************************************************************************)
EXTENDS Integers, Sequences, FiniteSets, TLC

\* ------------------------------------------------------------------ bounds
MaxSockets == 2    \* sockets that exist at the same time
MaxAttempt == 2    \* cap of reconnectAttempt
MaxOrphans == 1    \* cap of pending timers whose handle was overwritten
MaxRequests == 2   \* calls of handleIncomingRequest
MaxPairChunks == 1 \* 'data' callbacks per response when two calls run side by side
MaxChunks == 3     \* 'data' callbacks per response
MaxChunkLen == 3   \* tokens (lines, line feeds) in one chunk of a split body
MaxNow == 2        \* Date.now() runs over ClockStart..ClockStart+MaxNow
MaxSigns == 2      \* direct calls of signPermit2Payment
UDen == 2          \* Math.random() draws are u/UDen, u in 0..UDen-1
MaxBackoffAttempt == 7   \* attempts handed to computeBackoff on its own: 0..MaxBackoffAttempt

\* --------------------------------------------------------- program constants
SIXERR_PROTOCOL_VERSION == 2
CLOSE_NORMAL == 1000
CLOSE_RESTART == 1012

DEFAULT_RECONNECT_POLICY ==
    [initialMs |-> 1000, maxMs |-> 30000, factor |-> 2, factorDen |-> 1, jitterPct |-> 25]

\* ------------------------------------------------------------------- domains
SockIds == 1..MaxSockets
\* close codes a 'close' event may carry; 1006 is the ws library's code for a
\* connection lost without a close frame
CloseCodes == {CLOSE_NORMAL, 1006, CLOSE_RESTART}
Jwts == {"jwt0", "jwt1"}
PluginIds == {"p-1"}
Timestamps == {11, 12}
Calls == 1..MaxRequests
RequestIds == {"req-a", "req-b"}
UDraws == 0..(UDen - 1)
\* the first value Date.now() returns, a millisecond before a whole second
ClockStart == 1999
\* the values a second Date.now() of the same synchronous run can return
ClockReads(t) == {t} \cup (IF t < ClockStart + MaxNow THEN {t + 1} ELSE {})

VARIABLES
    sock,             \* readyState of each WebSocket that exists ("none": the slot holds no
                      \* socket; a closed socket emits nothing more and frees its slot)
    ws,               \* this.ws: 0 is null, else a socket id
    status,           \* this.status
    reconnectAttempt, \* this.reconnectAttempt
    closed,           \* this.closed
    requestCount,     \* this.requestCount
    pluginId,         \* this.pluginId ("" is null)
    reconnectTimer,   \* the timeout this.reconnectTimer refers to: "pending", or "null"
                      \* (no handle, or a handle whose timeout has run or was cleared)
    orphanTimers,     \* pending timers whose handle was overwritten
    delayMs,          \* the delay passed to setTimeout by the latest step (0: none)
    config,           \* this.config: jwt and pricing
    sent,             \* frames the latest step wrote, each with the socket written to
    reqId,            \* per handleIncomingRequest call: its requestId ("": not called)
    isStreaming,      \* per call: forwardBody.stream === true
    tr,               \* per call: where the HTTP exchange with the gateway stands
    statusCode,       \* per call: res.statusCode (0: no response yet)
    chunks,           \* per call: the body chunks received so far
    buffer,           \* per call: the buffer local of the SSE 'data' handler
    promise,          \* per call: how far the call got: "pending" (awaiting the gateway),
                      \* "settled" (resolve()/reject() called), "returned" (the code after
                      \* the await has run), "counted" (the .then has run)
    awaited,          \* per call: what the code after the await sends when it resumes: the
                      \* response of the resolved value or the error of the rejection
    microtasks,       \* the promise jobs waiting to run, in order
    signings,         \* the direct calls of signPermit2Payment that await their signer
    usage,            \* per call: the usage local of the streaming path
    out,              \* per call: the messages handed to sendMessage, in order
    payPc,            \* where the respond()/respondRaw() call stands ("idle": not called)
    payCall,          \* the arguments of the call and what it has met so far
    posts,            \* the fetch() calls of the call, in order
    signCalls,        \* invocations of signer.signTypedData by the call
    pending,          \* locals of signPermit2Payment while it awaits the signer
    payOut,           \* how the exchange ended: the Response the call returned, the error
                      \* it threw, or the error of reading the body of that Response
    proxyStatus,      \* the status handleResponses wrote to its caller (0: none yet)
    proxyReplies,     \* the replies handleResponses wrote to its caller, in order
    now,              \* Date.now()
    auths,            \* the payloads signPermit2Payment has encoded, in order
    closedBy,         \* history: what set closed ("init", "stop", "auth_error", "none")
    timerSock,        \* history: the socket a timer-driven connect() created, while it is CONNECTING (0: none)
    backoff,          \* the latest computeBackoff call taken on its own: arguments, draw, result
    notified,         \* the credential callback the latest step invoked, with its argument (<<>>: none)
    lastClose         \* history: the 'close' event of the latest step (its code, the counter before it), if any

vars == <<sock, ws, status, reconnectAttempt, closed, requestCount, pluginId,
          reconnectTimer, orphanTimers, delayMs, config, sent, closedBy,
          timerSock, lastClose, notified,
          reqId, isStreaming, tr, statusCode, chunks, buffer, promise, usage, out,
          awaited, microtasks, signings,
          payPc, payCall, posts, signCalls, pending, payOut, proxyStatus, now, auths,
          proxyReplies, backoff>>

backoffVars == <<backoff>>
payVars == <<payPc, payCall, posts, signCalls, pending, payOut, proxyStatus, now, auths,
             proxyReplies, signings>>
relayVars == <<reqId, isStreaming, tr, statusCode, chunks, buffer, promise, usage, out,
               awaited, microtasks>>
clientVars == <<sock, ws, status, reconnectAttempt, closed, pluginId, reconnectTimer,
                orphanTimers, delayMs, config, sent, closedBy, timerSock, lastClose,
                notified>>
\* what a callback of the relay leaves alone in the client: all but the frames written
clientState == <<sock, ws, status, reconnectAttempt, closed, pluginId, reconnectTimer,
                 orphanTimers, delayMs, config, closedBy, timerSock, lastClose, notified>>

\* ------------------------------------------------------------ computeBackoff
Pow(b, e) == IF e <= 0 THEN 1 ELSE
               LET F[k \in 0..e] == IF k = 0 THEN 1 ELSE b * F[k - 1] IN F[e]

Min(a, b) == IF a <= b THEN a ELSE b
Max(a, b) == IF a >= b THEN a ELSE b

\* Math.round of the rational num/den (den > 0, num >= 0): half rounds up.
RoundDiv(num, den) == (2 * num + den) \div (2 * den)

\* a computeBackoff that leaves out the cap at maxMs
computeBackoff_Uncapped(policy, attempt, u) ==
    LET e    == Max(attempt - 1, 0)
        base == policy.initialMs * Pow(policy.factor, e)
        den  == Pow(policy.factorDen, e)
        num  == base * 100 * UDen + base * policy.jitterPct * u
    IN  RoundDiv(num, den * 100 * UDen)

\* a computeBackoff that raises the factor to the attempt itself
computeBackoff_AttemptExponent(policy, attempt, u) ==
    LET e    == Max(attempt, 0)
        base == policy.initialMs * Pow(policy.factor, e)
        den  == Pow(policy.factorDen, e)
        num  == base * 100 * UDen + base * policy.jitterPct * u
    IN  Min(policy.maxMs, RoundDiv(num, den * 100 * UDen))

\* A policy's factor is the rational factor/factorDen and its jitter is
\* jitterPct/100.  u is the Math.random() draw, as the numerator of u/UDen
\* in [0,1).
computeBackoff(policy, attempt, u) ==
    LET e    == Max(attempt - 1, 0)
        \* base = initialMs * factor ** e, as the rational base / den
        base == policy.initialMs * Pow(policy.factor, e)
        den  == Pow(policy.factorDen, e)
        \* base + base * jitter * U, over the common denominator den * 100 * UDen
        num  == base * 100 * UDen + base * policy.jitterPct * u
    IN  Min(policy.maxMs, RoundDiv(num, den * 100 * UDen))

\* ------------------------------------------------------- inbound raw frames
\* A raw frame is text: either JSON text of some object, or text that is not JSON.
\* A member that must be a string and is a number in the frame is written as
\* NotAString.
NotAString == "<<number>>"
ServerObjects ==
    {[type |-> "auth_ok", pluginId |-> p, protocol |-> SIXERR_PROTOCOL_VERSION] :
        p \in PluginIds}
    \cup {[type |-> "auth_ok", pluginId |-> "p-1", protocol |-> SIXERR_PROTOCOL_VERSION - 1]}
    \cup {[type |-> "auth_error", message |-> "invalid key"]}
    \cup {[type |-> "auth_error", message |-> NotAString]}
    \cup {[type |-> "jwt_refresh", jwt |-> j] : j \in Jwts}
    \cup {[type |-> "price_update_ack", inputTokenPrice |-> "5", outputTokenPrice |-> "7"]}
    \cup {[type |-> "ping", ts |-> t] : t \in Timestamps}
    \cup {[type |-> "ping", ts |-> 11, extra |-> TRUE]}
    \cup {[type |-> "request", id |-> "req-a", body |-> [stream |-> TRUE]]}
    \cup {[type |-> "request", id |-> "req-b", body |-> [stream |-> FALSE]]}
    \cup {[type |-> "request", id |-> "req-b"]}
    \cup {[type |-> "request", id |-> "", body |-> [stream |-> TRUE]]}
    \cup {[type |-> "pong", ts |-> 11]}

RawFrames ==
    {[json |-> TRUE, value |-> o] : o \in ServerObjects}
    \cup {[json |-> FALSE, value |-> [type |-> "<<not json>>"]]}

\* JSON.parse(raw) inside try/catch
JsonParse(raw) == [ok |-> raw.json, value |-> raw.value]

\* a schema that takes an auth_ok of any protocol version
ServerMessageSchema_AnyVersion(m) ==
    CASE m.type = "auth_ok" -> DOMAIN m = {"type", "pluginId", "protocol"}
      [] m.type = "ping" -> DOMAIN m = {"type", "ts"}
      [] m.type \in {"request", "auth_error", "jwt_refresh", "price_update_ack"} -> TRUE
      [] OTHER -> FALSE

\* z.string(): the member is a string
IsString(v) == v # NotAString

\* z.string().min(1)
IsNonEmptyString(v) == IsString(v) /\ v # ""

\* ServerMessageSchema.safeParse(parsed).success: a discriminated union of
\* strict objects (no unknown keys, no unknown type).  The body of a request
\* is z.unknown(), which a frame without that member satisfies.
ServerMessageSchema(m) ==
    CASE m.type = "request" ->
            /\ {"type", "id"} \subseteq DOMAIN m
            /\ DOMAIN m \subseteq {"type", "id", "body"}
            /\ IsNonEmptyString(m.id)
       [] m.type = "ping" ->
            /\ DOMAIN m = {"type", "ts"}
            /\ m.ts \in Int
       [] m.type = "auth_ok" ->
            /\ DOMAIN m = {"type", "pluginId", "protocol"}
            /\ IsNonEmptyString(m.pluginId)
            /\ m.protocol = SIXERR_PROTOCOL_VERSION
       [] m.type = "auth_error" ->
            /\ DOMAIN m = {"type", "message"}
            /\ IsString(m.message)
       [] m.type = "jwt_refresh" ->
            /\ DOMAIN m = {"type", "jwt"}
            /\ IsNonEmptyString(m.jwt)
       [] m.type = "price_update_ack" ->
            /\ DOMAIN m = {"type", "inputTokenPrice", "outputTokenPrice"}
            /\ IsNonEmptyString(m.inputTokenPrice)
            /\ IsNonEmptyString(m.outputTokenPrice)
       [] OTHER -> FALSE

\* ------------------------------------------------------------------ helpers
\* history only: a timer-created socket is tracked until it leaves CONNECTING
StillConnecting(sk, ts) == IF ts # 0 /\ sk[ts] = "connecting" THEN ts ELSE 0
NoClose == [code |-> 0, attempt |-> 0]
\* payCall before respond()/respondRaw() is called
NoCall == [via |-> "", config |-> <<>>, url |-> "", body |-> "", maxAmountOverride |-> "",
           firstStatus |-> 0, paymentBody |-> <<>>, signed |-> FALSE]
NoBackoff == [policy |-> DEFAULT_RECONNECT_POLICY, attempt |-> -1, u |-> 0, delay |-> 0]
ZeroUsage == [input_tokens |-> 0, output_tokens |-> 0, total_tokens |-> 0]
OtherUsage == [input_tokens |-> 5, output_tokens |-> 6, total_tokens |-> 11]
SomeUsage == [input_tokens |-> 3, output_tokens |-> 4, total_tokens |-> 7]
NoPricing == [set |-> FALSE, inputTokenPrice |-> "", outputTokenPrice |-> ""]
\* { ...body } of a request frame that has no body member: an object with no keys
NoBody == [k \in {} |-> TRUE]

FreeSocks == {s \in SockIds : sock[s] = "none"}
NewSock == CHOOSE s \in FreeSocks : \A t \in FreeSocks : s <= t
LiveSocks == {s \in SockIds : sock[s] \in {"connecting", "open"}}

\* sendMessage(msg): written to this.ws only when its readyState is OPEN.
\* sk, w are the sockets and this.ws at the time of the call.
\* a send path that writes whatever the state of the socket
sendMessage_Unguarded(sk, w, msg) == <<[sock |-> w, msg |-> msg]>>

\* A socket is "connecting" (CONNECTING), "open" (OPEN), "closing" (CLOSING
\* after a local close()), "closeReceived" (CLOSING after the peer's close
\* frame, the 'close' event still to come) or "aborting" (a handshake given
\* up by a local close()).
sendMessage(sk, w, msg) ==
    IF w # 0 /\ sk[w] = "open" THEN <<[sock |-> w, msg |-> msg]>> ELSE <<>>

\* this.ws.close(1000, ...): an OPEN socket starts the closing handshake, a
\* CONNECTING one aborts its handshake; the 'close' event comes later.
wsClose(sk, w) ==
    IF w = 0 THEN sk
    ELSE [sk EXCEPT ![w] = CASE @ = "open" -> "closing"
                             [] @ = "connecting" -> "aborting"
                             [] OTHER -> @]

\* the auth message of the open handler; the pricing fields are spread in only
\* when config.pricing is set (agentName/agentDescription are not configured)
\* an auth message that never carries pricing
AuthMessage_NoPricing(cfg) ==
    [type |-> "auth", jwt |-> cfg.jwt, protocol |-> SIXERR_PROTOCOL_VERSION]

AuthMessage(cfg) ==
    IF cfg.pricing.set
    THEN [type |-> "auth", jwt |-> cfg.jwt, protocol |-> SIXERR_PROTOCOL_VERSION,
          inputTokenPrice |-> cfg.pricing.inputTokenPrice,
          outputTokenPrice |-> cfg.pricing.outputTokenPrice]
    ELSE [type |-> "auth", jwt |-> cfg.jwt, protocol |-> SIXERR_PROTOCOL_VERSION]

\* ------------------------------------------------------------------- Init
Init ==
    /\ sock = [s \in SockIds |-> "none"]
    /\ ws = 0
    /\ status = "disconnected"
    /\ reconnectAttempt = 0
    /\ closed = TRUE
    /\ requestCount = 0
    /\ pluginId = ""
    /\ reconnectTimer = "null"
    /\ orphanTimers = 0
    /\ delayMs = 0
    /\ config = [jwt |-> "jwt0", pricing |-> NoPricing]
    /\ sent = <<>>
    /\ reqId = [c \in Calls |-> ""]
    /\ isStreaming = [c \in Calls |-> FALSE]
    /\ tr = [c \in Calls |-> "none"]
    /\ statusCode = [c \in Calls |-> 0]
    /\ chunks = [c \in Calls |-> <<>>]
    /\ buffer = [c \in Calls |-> <<>>]
    /\ promise = [c \in Calls |-> "none"]
    /\ usage = [c \in Calls |-> ZeroUsage]
    /\ out = [c \in Calls |-> <<>>]
    /\ awaited = [c \in Calls |-> <<>>]
    /\ microtasks = <<>>
    /\ signings = <<>>
    /\ payPc = "idle"
    /\ payCall = NoCall
    /\ posts = <<>>
    /\ signCalls = 0
    /\ pending = <<>>
    /\ payOut = [kind |-> "none"]
    /\ proxyStatus = 0
    /\ proxyReplies = <<>>
    /\ now = ClockStart
    /\ auths = <<>>
    /\ closedBy = "init"
    /\ timerSock = 0
    /\ lastClose = NoClose
    /\ notified = <<>>
    /\ backoff = NoBackoff

\* ------------------------------------------------------------- PluginClient
\* connect(): returns at once when closed, else creates a socket.
connect(isClosed) ==
    IF isClosed
    THEN UNCHANGED <<status, sock, ws>>
    ELSE /\ status' = "connecting"
         /\ sock' = [sock EXCEPT ![NewSock] = "connecting"]
         /\ ws' = NewSock

\* start()
Start ==
    /\ FreeSocks # {}
    /\ closed' = FALSE
    /\ closedBy' = "none"
    /\ connect(FALSE)
    /\ sent' = <<>>
    /\ notified' = <<>>
    /\ UNCHANGED <<reconnectAttempt, requestCount, pluginId, reconnectTimer,
                  orphanTimers, config, relayVars, backoffVars, payVars>>
    /\ delayMs' = 0
    /\ timerSock' = StillConnecting(sock', timerSock)
    /\ lastClose' = NoClose

\* stop()
Stop ==
    /\ closed' = TRUE
    /\ closedBy' = "stop"
    /\ reconnectTimer' = "null"
    /\ sock' = wsClose(sock, ws)
    /\ ws' = 0
    /\ status' = "disconnected"
    /\ sent' = <<>>
    /\ notified' = <<>>
    /\ UNCHANGED <<reconnectAttempt, requestCount, pluginId, orphanTimers, config, relayVars, backoffVars, payVars>>
    /\ delayMs' = 0
    /\ timerSock' = StillConnecting(sock', timerSock)
    /\ lastClose' = NoClose

\* ws.on("open")
SocketOpen(s) ==
    /\ sock[s] = "connecting"
    /\ sock' = [sock EXCEPT ![s] = "open"]
    /\ status' = "authenticating"
    /\ sent' = sendMessage(sock', ws, AuthMessage(config))
    /\ notified' = <<>>
    /\ UNCHANGED <<ws, reconnectAttempt, closed, requestCount, pluginId,
                   reconnectTimer, orphanTimers, config, relayVars, backoffVars, payVars, closedBy>>
    /\ delayMs' = 0
    /\ timerSock' = StillConnecting(sock', timerSock)
    /\ lastClose' = NoClose

\* scheduleReconnect(), with attempt the counter as the close handler left it
\* a scheduleReconnect that sets no timer
scheduleReconnect_NoTimer(attempt) ==
    IF closed
    THEN /\ status' = "disconnected"
         /\ reconnectAttempt' = attempt
         /\ delayMs' = 0
         /\ UNCHANGED <<reconnectTimer, orphanTimers>>
    ELSE /\ status' = "reconnecting"
         /\ reconnectAttempt' = attempt + 1
         /\ \E u \in UDraws :
                delayMs' = computeBackoff(DEFAULT_RECONNECT_POLICY, attempt + 1, u)
         /\ UNCHANGED <<reconnectTimer, orphanTimers>>

scheduleReconnect(attempt) ==
    IF closed
    THEN /\ status' = "disconnected"
         /\ reconnectAttempt' = attempt
         /\ delayMs' = 0
         /\ UNCHANGED <<reconnectTimer, orphanTimers>>
    ELSE /\ status' = "reconnecting"
         /\ reconnectAttempt' = attempt + 1
         /\ \E u \in UDraws :
                delayMs' = computeBackoff(DEFAULT_RECONNECT_POLICY, attempt + 1, u)
         /\ reconnectTimer' = "pending"
         /\ orphanTimers' = IF reconnectTimer = "pending"
                            THEN orphanTimers + 1 ELSE orphanTimers

attemptAfterClose_NoReset(code) == reconnectAttempt

\* a close handler that forgets the failures counted so far
attemptAfterClose_AlwaysReset(code) == 0

\* the counter after the close handler's test of the close code
attemptAfterClose(code) == IF code = CLOSE_RESTART THEN 0 ELSE reconnectAttempt

\* which 'close' events the ws library can emit: a socket that never opened
\* closes with 1006; an open or closing one with any code
CanClose(s, code) ==
    IF sock[s] \in {"open", "closing", "closeReceived"} THEN TRUE
    ELSE sock[s] \in {"connecting", "aborting"} /\ code = 1006

\* ws.on("close", code)
SocketClose(s, code) ==
    /\ CanClose(s, code)
    /\ closed \/ attemptAfterClose(code) < MaxAttempt
    /\ closed \/ reconnectTimer # "pending" \/ orphanTimers < MaxOrphans
    /\ sock' = [sock EXCEPT ![s] = "none"]
    /\ ws' = 0
    /\ scheduleReconnect(attemptAfterClose(code))
    /\ sent' = <<>>
    /\ notified' = <<>>
    /\ lastClose' = [code |-> code, attempt |-> reconnectAttempt]
    /\ UNCHANGED <<closed, requestCount, pluginId, config, relayVars, backoffVars, payVars, closedBy>>
    /\ timerSock' = StillConnecting(sock', timerSock)

\* the peer's close frame arrives on an OPEN socket: the ws library answers
\* it and sets readyState to CLOSING; it delivers no frame after it and emits
\* 'close' when the connection is gone
PeerCloseFrame(s) ==
    /\ sock[s] = "open"
    /\ sock' = [sock EXCEPT ![s] = "closeReceived"]
    /\ sent' = <<>>
    /\ notified' = <<>>
    /\ delayMs' = 0
    /\ lastClose' = NoClose
    /\ UNCHANGED <<ws, status, reconnectAttempt, closed, requestCount, pluginId,
                   reconnectTimer, orphanTimers, config, closedBy, timerSock,
                   relayVars, backoffVars, payVars>>

\* updatePricing(inputTokenPrice, outputTokenPrice)
updatePricing(inputTokenPrice, outputTokenPrice) ==
    /\ sent' = sendMessage(sock, ws, [type |-> "price_update",
                                      inputTokenPrice |-> inputTokenPrice,
                                      outputTokenPrice |-> outputTokenPrice])
    /\ notified' = <<>>
    /\ delayMs' = 0
    /\ lastClose' = NoClose
    /\ UNCHANGED <<sock, ws, status, reconnectAttempt, closed, requestCount, pluginId,
                   reconnectTimer, orphanTimers, config, closedBy, timerSock,
                   relayVars, backoffVars, payVars>>

\* the reconnect timer held in this.reconnectTimer fires: () => this.connect()
TimerFire ==
    /\ reconnectTimer = "pending"
    /\ closed \/ FreeSocks # {}
    /\ reconnectTimer' = "null"
    /\ connect(closed)
    /\ timerSock' = IF closed THEN StillConnecting(sock', timerSock) ELSE NewSock
    /\ sent' = <<>>
    /\ notified' = <<>>
    /\ UNCHANGED <<reconnectAttempt, closed, requestCount, pluginId, orphanTimers,
                   config, relayVars, backoffVars, payVars, closedBy>>
    /\ delayMs' = 0
    /\ lastClose' = NoClose

\* a timer whose handle was overwritten by a later scheduleReconnect() fires
OrphanTimerFire ==
    /\ orphanTimers > 0
    /\ closed \/ FreeSocks # {}
    /\ orphanTimers' = orphanTimers - 1
    /\ connect(closed)
    /\ timerSock' = IF closed THEN StillConnecting(sock', timerSock) ELSE NewSock
    /\ sent' = <<>>
    /\ notified' = <<>>
    /\ UNCHANGED <<reconnectAttempt, closed, requestCount, pluginId, reconnectTimer,
                   config, relayVars, backoffVars, payVars, closedBy>>
    /\ delayMs' = 0
    /\ lastClose' = NoClose

\* ----------------------------------------------------------------- relay
\* One handleIncomingRequest call per element of Calls.  The HTTP exchange of
\* a call (node:http ClientRequest req, IncomingMessage res) stands at:
\*   "none"       handleIncomingRequest not called
\*   "waiting"    request written, no response yet
\*   "flowing"    'response' delivered, body arriving
\*   "destroyed"  the timeout handler has called req.destroy(err)
\*   "broken"     req 'error' delivered mid-body; res not yet finished off
\*   "ended"      res 'end' delivered; the socket is still there
\*   "closed"     the socket is gone: no further callback can run
\* request bodies as they arrive from the server
Bodies == {[stream |-> TRUE], [stream |-> FALSE]}

\* The text of a response body is a sequence of tokens: a token is one whole
\* line of the body, or the line feed that ends a line.
LF == "LF"
DataLines == {"data: delta", "data: completed", "data: completed-b",
              "data: completed-bare", "data: garbage", "data: [DONE]"}
Tokens == DataLines \cup {"event: x", "json", LF}

\* line.slice(6) of a line that starts with "data: "
Payload(line) ==
    CASE line = "data: delta" -> "delta"
      [] line = "data: completed" -> "completed"
      [] line = "data: completed-b" -> "completed-b"
      [] line = "data: completed-bare" -> "completed-bare"
      [] line = "data: garbage" -> "garbage"
      [] line = "data: [DONE]" -> "[DONE]"

\* the events of the gateway and the document of the non-streaming endpoint
DeltaEvent == [type |-> "response.output_text.delta"]
CompletedEvent == [type |-> "response.completed", response |-> [usage |-> SomeUsage]]
CompletedEventB == [type |-> "response.completed", response |-> [usage |-> OtherUsage]]
\* a response.completed event whose response carries no usage
CompletedEventBare == [type |-> "response.completed", response |-> [id |-> "resp-1"]]
JsonDocument == [type |-> "response"]

\* JSON.parse(text): ok is whether it returns, value what it returns
JSONparse(text) ==
    CASE text = "delta" -> [ok |-> TRUE, value |-> DeltaEvent]
      [] text = "completed" -> [ok |-> TRUE, value |-> CompletedEvent]
      [] text = "completed-b" -> [ok |-> TRUE, value |-> CompletedEventB]
      [] text = "completed-bare" -> [ok |-> TRUE, value |-> CompletedEventBare]
      [] text = "json" -> [ok |-> TRUE, value |-> JsonDocument]
      [] OTHER -> [ok |-> FALSE, value |-> [type |-> ""]]

\* Buffer.concat(chunks), and buffer += chunk applied over and over
RECURSIVE concat(_)
concat(list) == IF list = <<>> THEN <<>> ELSE Head(list) \o concat(Tail(list))

\* the place of the first "\n\n" of text (0: none)
FirstBlank(text) ==
    LET at == {i \in 1..(Len(text) - 1) : text[i] = LF /\ text[i + 1] = LF}
    IN  IF at = {} THEN 0 ELSE CHOOSE i \in at : \A j \in at : i <= j

\* text.split("\n\n")
RECURSIVE split(_)
split(text) ==
    IF FirstBlank(text) = 0 THEN <<text>>
    ELSE <<SubSeq(text, 1, FirstBlank(text) - 1)>>
            \o split(SubSeq(text, FirstBlank(text) + 2, Len(text)))

\* part.trim(): the white space here is the line feed
RECURSIVE trim(_)
trim(part) ==
    IF part = <<>> THEN <<>>
    ELSE IF Head(part) = LF THEN trim(Tail(part))
    ELSE IF part[Len(part)] = LF THEN trim(SubSeq(part, 1, Len(part) - 1))
    ELSE part

\* part.split("\n"): each line is the run of tokens up to the next line feed
RECURSIVE lines(_, _)
lines(part, line) ==
    IF part = <<>> THEN <<line>>
    ELSE IF Head(part) = LF THEN <<line>> \o lines(Tail(part), <<>>)
    ELSE lines(Tail(part), Append(line, Head(part)))

\* the loop over the lines of a part: dataStr as the list of the payloads
\* that it joins with "\n".  A line that starts with "data: " and runs on
\* into further text carries a payload that is not JSON.
RECURSIVE dataStr(_)
dataStr(ls) ==
    IF ls = <<>> THEN <<>>
    ELSE LET line == Head(ls)
         IN  IF line # <<>> /\ line[1] \in DataLines
             THEN <<IF Len(line) = 1 THEN Payload(line[1]) ELSE "garbage">>
                     \o dataStr(Tail(ls))
             ELSE dataStr(Tail(ls))

\* the body of the loop over the parts: the events one part hands to
\* callbacks.onEvent (none when the part is blank, is the [DONE] sentinel,
\* has no data, or has data that JSON.parse rejects)
decodePart(part) ==
    IF trim(part) = <<>> THEN <<>>
    ELSE IF trim(part) = <<"data: [DONE]">> THEN <<>>
    ELSE LET d == dataStr(lines(part, <<>>))
         IN  IF Len(d) = 1 /\ JSONparse(d[1]).ok THEN <<JSONparse(d[1]).value>>
             ELSE <<>>

\* the loop over the parts, in order
RECURSIVE decodeParts(_)
decodeParts(parts) ==
    IF parts = <<>> THEN <<>>
    ELSE decodePart(Head(parts)) \o decodeParts(Tail(parts))

\* a data handler that keeps nothing from one chunk to the next
pop_Discarded(parts) == <<>>

\* parts.pop() ?? "": what stays in the buffer
pop(parts) == parts[Len(parts)]

\* parts after parts.pop()
popped(parts) == SubSeq(parts, 1, Len(parts) - 1)

\* the bodies the gateway produces, and the chunks it is cut into when each
\* chunk carries whole parts
SseStreams ==
    {<<"data: delta", LF, LF, "data: completed", LF, LF, "data: [DONE]", LF, LF>>,
     <<"event: x", LF, "data: delta", LF, LF, "data: garbage", LF, LF, "data: completed">>,
     <<LF, LF, LF, "data: completed", LF, LF, "data: completed-b", LF, LF>>,
     <<"data: delta", LF, "data: delta", LF, LF, LF, "data: [DONE]", LF, LF, "data: delta", LF, LF>>}
Chunks ==
    {<<"data: delta", LF, LF>>, <<"data: completed", LF, LF>>, <<"data: [DONE]", LF, LF>>,
     <<"data: garbage", LF, LF>>, <<"data: completed-bare", LF, LF>>, <<"json">>}

\* the pieces a body can arrive in when the transport cuts it anywhere
Fragments ==
    UNION {{SubSeq(s, p[1], p[1] + p[2] - 1) :
               p \in {q \in (1..Len(s)) \X (1..MaxChunkLen) : q[1] + q[2] - 1 <= Len(s)}} :
           s \in SseStreams}

HttpStatuses == {200, 500}

StreamEventMsg(id, event) == [type |-> "stream_event", id |-> id, event |-> event]
StreamEndMsg(id, u) == [type |-> "stream_end", id |-> id, usage |-> u]
ResponseMsg(id, body) == [type |-> "response", id |-> id, body |-> body]
ErrorMsg(id, message) ==
    [type |-> "error", id |-> id, code |-> "plugin_error", message |-> message]

\* the response callback's test: res.statusCode >= 400
IsHttpError(c) == statusCode[c] >= 400

\* the streaming branch that installed the SSE listeners, res 'error' included
SseListening(c) == isStreaming[c] /\ ~IsHttpError(c)

\* sendMessage called for each of msgs in turn
RECURSIVE sendAll(_, _, _)
sendAll(sk, w, msgs) ==
    IF msgs = <<>> THEN <<>>
    ELSE sendMessage(sk, w, Head(msgs)) \o sendAll(sk, w, Tail(msgs))

\* the messages call c hands to sendMessage in this step, in order: each is
\* written to this.ws if that socket is OPEN
emits(c, msgs) ==
    /\ out' = [out EXCEPT ![c] = @ \o msgs]
    /\ sent' = sendAll(sock, ws, msgs)

\* a message handed to sendMessage by call c
emit(c, msg) == emits(c, <<msg>>)

\* a promise job: the code of call c after its await ("await") or the .then
\* of the request branch ("then"); tick is what settled the promise: the call
\* itself ("call") or a callback of node:http ("http")
Job(c, step, tick) == [call |-> c, step |-> step, tick |-> tick]

\* resolve()/reject() of the awaited promise: the first call settles it and
\* queues the code after the await, which will send msgs; later calls do
\* nothing
settle(c, msgs) ==
    IF promise[c] = "pending"
    THEN /\ promise' = [promise EXCEPT ![c] = "settled"]
         /\ awaited' = [awaited EXCEPT ![c] = msgs]
         /\ microtasks' = Append(microtasks, Job(c, "await", "http"))
    ELSE UNCHANGED <<promise, awaited, microtasks>>

\* forwardBody.stream === true, forwardBody being { ...body }
IsStreamingBody(body) == "stream" \in DOMAIN body /\ body.stream = TRUE

\* a handleIncomingRequest that is entered only when no other call awaits
\* the gateway
handleIncomingRequest_Serial(c, requestId, body, cfgOk) ==
    /\ \A d \in Calls : promise[d] # "pending"
    /\ tr[c] = "none"
    /\ reqId' = [reqId EXCEPT ![c] = requestId]
    /\ isStreaming' = [isStreaming EXCEPT ![c] = IsStreamingBody(body)]
    /\ usage' = [usage EXCEPT ![c] = ZeroUsage]
    /\ UNCHANGED <<statusCode, chunks, buffer, out, requestCount>>
    /\ IF cfgOk
       THEN /\ tr' = [tr EXCEPT ![c] = "waiting"]
            /\ promise' = [promise EXCEPT ![c] = "pending"]
            /\ UNCHANGED <<awaited, microtasks>>
       ELSE /\ tr' = [tr EXCEPT ![c] = "closed"]
            /\ promise' = [promise EXCEPT ![c] = "settled"]
            /\ awaited' = [awaited EXCEPT ![c] = <<ErrorMsg(requestId, "Invalid URL")>>]
            /\ microtasks' = Append(microtasks, Job(c, "await", "call"))

\* handleIncomingRequest(requestId, body, ...) up to its await, where it
\* returns its promise; cfgOk is whether building the HTTP request succeeds:
\* new URL / transport.request throw on a bad gateway configuration inside
\* the promise executor, which rejects the awaited promise at once
handleIncomingRequest(c, requestId, body, cfgOk) ==
    /\ tr[c] = "none"
    /\ reqId' = [reqId EXCEPT ![c] = requestId]
    /\ isStreaming' = [isStreaming EXCEPT ![c] = IsStreamingBody(body)]
    /\ usage' = [usage EXCEPT ![c] = ZeroUsage]
    /\ UNCHANGED <<statusCode, chunks, buffer, out, requestCount>>
    /\ IF cfgOk
       THEN /\ tr' = [tr EXCEPT ![c] = "waiting"]
            /\ promise' = [promise EXCEPT ![c] = "pending"]
            /\ UNCHANGED <<awaited, microtasks>>
       ELSE /\ tr' = [tr EXCEPT ![c] = "closed"]
            /\ promise' = [promise EXCEPT ![c] = "settled"]
            /\ awaited' = [awaited EXCEPT ![c] = <<ErrorMsg(requestId, "Invalid URL")>>]
            /\ microtasks' = Append(microtasks, Job(c, "await", "call"))

\* the request-branch call of handleIncomingRequest, taken on its own
Request(c, requestId, body, cfgOk) ==
    /\ handleIncomingRequest(c, requestId, body, cfgOk)
    /\ sent' = <<>>
    /\ UNCHANGED <<clientState, backoffVars, payVars>>

\* handleIncomingRequest resumed after its await: the non-streaming path
\* sends the response it got, the catch block sends the error of a rejection,
\* the streaming path has nothing left to send; then the function returns,
\* which queues the .then of the request branch
AfterAwait(c) ==
    /\ microtasks # <<>>
    /\ Head(microtasks).call = c
    /\ Head(microtasks).step = "await"
    /\ emits(c, awaited[c])
    /\ awaited' = [awaited EXCEPT ![c] = <<>>]
    /\ promise' = [promise EXCEPT ![c] = "returned"]
    /\ microtasks' = Append(Tail(microtasks), Job(c, "then", Head(microtasks).tick))
    /\ UNCHANGED <<reqId, isStreaming, tr, statusCode, chunks, buffer, usage, requestCount,
                   clientState, backoffVars, payVars>>

\* the .then of the request branch: requestCount++ and
\* onStatusChange("connected", pluginId, requestCount)
ThenCount(c) ==
    /\ microtasks # <<>>
    /\ Head(microtasks).call = c
    /\ Head(microtasks).step = "then"
    /\ requestCount' = requestCount + 1
    /\ promise' = [promise EXCEPT ![c] = "counted"]
    /\ microtasks' = Tail(microtasks)
    /\ sent' = <<>>
    /\ UNCHANGED <<reqId, isStreaming, tr, statusCode, chunks, buffer, usage, out, awaited,
                   clientState, backoffVars, payVars>>

\* req.on("timeout"): req.destroy(new Error("... timed out")).  The socket
\* idle timeout runs while the request waits or the body flows; node removes
\* it when the response ends.
ReqTimeout(c) ==
    /\ tr[c] \in {"waiting", "flowing"}
    /\ tr' = [tr EXCEPT ![c] = "destroyed"]
    /\ sent' = <<>>
    /\ UNCHANGED <<reqId, isStreaming, statusCode, chunks, buffer, promise, usage, out,
                   awaited, microtasks, requestCount, clientState, backoffVars, payVars>>

\* req.on("error", err): node emits it for a socket error or for the error
\* passed to req.destroy, whether or not a response has been delivered, and
\* also after res 'end' while the socket is still there (it never looks at res)
ReqError(c) ==
    /\ tr[c] \in {"waiting", "flowing", "destroyed", "ended"}
    /\ LET message == IF tr[c] = "destroyed" THEN "timed out" ELSE "socket hang up"
       IN  IF isStreaming[c]
           THEN \* callbacks.onError(err); resolve()
                /\ emit(c, ErrorMsg(reqId[c], message))
                /\ settle(c, <<>>)
           ELSE \* reject(err): the catch block sends the error later
                /\ emits(c, <<>>)
                /\ settle(c, <<ErrorMsg(reqId[c], message)>>)
    /\ tr' = [tr EXCEPT ![c] =
                IF statusCode[c] # 0 /\ tr[c] # "ended" THEN "broken" ELSE "closed"]
    /\ UNCHANGED <<reqId, isStreaming, statusCode, chunks, buffer, usage, requestCount,
                   clientState, backoffVars, payVars>>

\* the response callback of transport.request: installs the listeners
Response(c, st) ==
    /\ tr[c] = "waiting"
    /\ tr' = [tr EXCEPT ![c] = "flowing"]
    /\ statusCode' = [statusCode EXCEPT ![c] = st]
    /\ sent' = <<>>
    /\ UNCHANGED <<reqId, isStreaming, chunks, buffer, promise, usage, out, awaited,
                   microtasks, requestCount, clientState, backoffVars, payVars>>

\* an onEvent that forwards the event and never looks at its usage
onEvent_UsageIgnored(st, id, event) ==
    [out |-> Append(st.out, StreamEventMsg(id, event)), usage |-> st.usage]

\* callbacks.onEvent(event) of the streaming path, on the locals st it
\* works with: the messages sent so far and the usage local
onEvent(st, id, event) ==
    [out |-> Append(st.out, StreamEventMsg(id, event)),
     usage |-> IF /\ event.type = "response.completed"
                  /\ "response" \in DOMAIN event
                  /\ "usage" \in DOMAIN event.response
               THEN event.response.usage ELSE st.usage]

\* callbacks.onEvent called for each decoded event in turn
RECURSIVE onEvents(_, _, _)
onEvents(st, id, events) ==
    IF events = <<>> THEN st
    ELSE onEvents(onEvent(st, id, Head(events)), id, Tail(events))

\* res.on("data", chunk): while the body flows, and also after req 'error'
\* for what the socket had received of the body (the listener never looks at
\* what the call has sent)
ResData(c, chunk) ==
    /\ tr[c] \in {"flowing", "broken"}
    /\ Len(chunks[c]) < MaxChunks
    /\ chunks' = [chunks EXCEPT ![c] = Append(@, chunk)]
    /\ IF SseListening(c)
       THEN LET parts == split(buffer[c] \o chunk)
                st == onEvents([out |-> <<>>, usage |-> usage[c]], reqId[c],
                               decodeParts(popped(parts)))
            IN  /\ buffer' = [buffer EXCEPT ![c] = pop(parts)]
                /\ emits(c, st.out)
                /\ usage' = [usage EXCEPT ![c] = st.usage]
       ELSE \* the other branches only collect the chunk
            /\ emits(c, <<>>)
            /\ UNCHANGED <<buffer, usage>>
    /\ UNCHANGED <<reqId, isStreaming, tr, statusCode, promise, awaited, microtasks,
                   requestCount, clientState, backoffVars, payVars>>

\* JSON.parse(Buffer.concat(chunks).toString("utf-8"))
BodyParses(c) == trim(concat(chunks[c])) = <<"json">>

\* res.on("end"): at the end of the body, and also when a socket error cuts a
\* body that is delimited by the end of the connection (node finishes the
\* parser in its socket error listener, which completes such a response)
ResEnd(c) ==
    /\ tr[c] \in {"flowing", "broken"}
    /\ tr' = [tr EXCEPT ![c] = "ended"]
    /\ IF isStreaming[c]
       THEN /\ IF IsHttpError(c)
               THEN emit(c, ErrorMsg(reqId[c], "gateway error"))
               ELSE emit(c, StreamEndMsg(reqId[c], usage[c]))
            /\ settle(c, <<>>)
       ELSE \* reject(...) or resolve(parsed): the message is sent after the await
            /\ emits(c, <<>>)
            /\ IF ~BodyParses(c) THEN settle(c, <<ErrorMsg(reqId[c], "invalid JSON")>>)
               ELSE IF IsHttpError(c) THEN settle(c, <<ErrorMsg(reqId[c], "gateway error")>>)
               ELSE settle(c, <<ResponseMsg(reqId[c], JSONparse("json").value)>>)
    /\ UNCHANGED <<reqId, isStreaming, statusCode, chunks, buffer, usage, requestCount,
                   clientState, backoffVars, payVars>>

\* res.on("error", err), installed by the SSE branch only: node destroys an
\* incomplete response when the socket closes (after a socket error, after
\* req.destroy, or on a premature close) and emits 'error' on it
ResError(c) ==
    /\ SseListening(c)
    /\ tr[c] \in {"flowing", "broken"}
    /\ tr' = [tr EXCEPT ![c] = "closed"]
    /\ emit(c, ErrorMsg(reqId[c], "aborted"))
    /\ settle(c, <<>>)
    /\ UNCHANGED <<reqId, isStreaming, statusCode, chunks, buffer, usage, requestCount,
                   clientState, backoffVars, payVars>>

\* the socket closes with no listener of the program left to run: after the
\* response ended, or under an incomplete response that has no 'error'
\* listener (the status >= 400 branch and the non-streaming path)
TransportClose(c) ==
    /\ \/ tr[c] = "ended"
       \/ tr[c] \in {"flowing", "broken"} /\ ~SseListening(c)
    /\ tr' = [tr EXCEPT ![c] = "closed"]
    /\ sent' = <<>>
    /\ UNCHANGED <<reqId, isStreaming, statusCode, chunks, buffer, promise, usage, out,
                   awaited, microtasks, requestCount, clientState, backoffVars, payVars>>

\* The event loop runs every queued promise job before the next event.  An
\* event starts only when no job is queued, except for what node runs in the
\* turn of the event that queued the jobs: the next frame of the chunk the
\* request frame came in, and the rest and the end of a response whose socket
\* error has just been reported.
NoJob == microtasks = <<>>
FrameTurn ==
    \A i \in 1..Len(microtasks) :
        microtasks[i].step = "await" /\ microtasks[i].tick = "call"
ErrorTurn(c) ==
    \/ NoJob
    \/ /\ tr[c] = "broken"
       /\ \A i \in 1..Len(microtasks) : microtasks[i] = Job(c, "await", "http")

\* the calls of handleIncomingRequest are numbered in the order they are made
FreeCalls == {c \in Calls : tr[c] = "none"}
NextCalls == {c \in FreeCalls : \A d \in FreeCalls : c <= d}
NewCall == CHOOSE c \in NextCalls : TRUE

PongMessage_OwnClock(msg) == [type |-> "pong", ts |-> 11]

\* the reply to a ping: { type: "pong", ts: msg.ts }
PongMessage(msg) == [type |-> "pong", ts |-> msg.ts]

\* handleMessage(raw)
handleMessage(raw) ==
    LET parsed == JsonParse(raw)
        msg == parsed.value
    IN
    /\ lastClose' = NoClose
    /\ IF ~parsed.ok \/ ~ServerMessageSchema(msg)
       THEN /\ sent' = <<>>
            /\ notified' = <<>>
            /\ UNCHANGED <<sock, ws, status, reconnectAttempt, closed, requestCount,
                           pluginId, reconnectTimer, orphanTimers, config,
                           relayVars, backoffVars, payVars, closedBy, timerSock>>
            /\ delayMs' = 0
       ELSE
       CASE msg.type = "auth_ok" ->
               /\ pluginId' = msg.pluginId
               /\ reconnectAttempt' = 0
               /\ status' = "connected"
               /\ sent' = <<>>
               /\ notified' = <<>>
               /\ UNCHANGED <<sock, ws, closed, requestCount, reconnectTimer,
                              orphanTimers, config, relayVars, backoffVars, payVars, closedBy,
                              timerSock>>
               /\ delayMs' = 0
         [] msg.type = "auth_error" ->
               /\ closed' = TRUE
               /\ closedBy' = "auth_error"
               /\ sock' = wsClose(sock, ws)
               /\ ws' = 0
               /\ status' = "disconnected"
               /\ sent' = <<>>
               /\ notified' = <<>>
               /\ timerSock' = StillConnecting(sock', timerSock)
               /\ UNCHANGED <<reconnectAttempt, requestCount, pluginId, reconnectTimer,
                              orphanTimers, config, relayVars, backoffVars, payVars>>
               /\ delayMs' = 0
         [] msg.type = "jwt_refresh" ->
               /\ config' = [config EXCEPT !.jwt = msg.jwt]
               /\ sent' = <<>>
               /\ notified' = [callback |-> "onJwtRefresh", arg |-> msg.jwt]
               /\ UNCHANGED <<sock, ws, status, reconnectAttempt, closed, requestCount,
                              pluginId, reconnectTimer, orphanTimers, relayVars, backoffVars, payVars, closedBy, timerSock>>
               /\ delayMs' = 0
         [] msg.type = "price_update_ack" ->
               /\ config' = [config EXCEPT !.pricing =
                               [set |-> TRUE,
                                inputTokenPrice |-> msg.inputTokenPrice,
                                outputTokenPrice |-> msg.outputTokenPrice]]
               /\ sent' = <<>>
               /\ notified' = [callback |-> "onPriceUpdateAck",
                                arg |-> [inputTokenPrice |-> msg.inputTokenPrice,
                                         outputTokenPrice |-> msg.outputTokenPrice]]
               /\ UNCHANGED <<sock, ws, status, reconnectAttempt, closed, requestCount,
                              pluginId, reconnectTimer, orphanTimers, relayVars, backoffVars, payVars, closedBy, timerSock>>
               /\ delayMs' = 0
         [] msg.type = "ping" ->
               /\ sent' = sendMessage(sock, ws, PongMessage(msg))
               /\ notified' = <<>>
               /\ UNCHANGED <<sock, ws, status, reconnectAttempt, closed, requestCount,
                              pluginId, reconnectTimer, orphanTimers, config,
                              relayVars, backoffVars, payVars, closedBy, timerSock>>
               /\ delayMs' = 0
         [] msg.type = "request" ->
               /\ FreeCalls # {}
               /\ \E cfgOk \in BOOLEAN :
                      handleIncomingRequest(NewCall, msg.id,
                                            IF "body" \in DOMAIN msg THEN msg.body ELSE NoBody,
                                            cfgOk)
               /\ sent' = <<>>
               /\ notified' = <<>>
               /\ delayMs' = 0
               /\ UNCHANGED <<sock, ws, status, reconnectAttempt, closed,
                              pluginId, reconnectTimer, orphanTimers, config,
                              closedBy, timerSock, backoffVars, payVars>>

\* ws.on("message"): the ws library delivers frames while the socket is OPEN and,
\* after a local close(), until the peer's close frame arrives (CLOSING)
SocketMessage(s, raw) ==
    /\ sock[s] \in {"open", "closing"}
    /\ handleMessage(raw)

\* The connection state machine: the public API, the socket events and the
\* timers, with every frame the server may send except requests.
ControlFrames == {f \in RawFrames : ~f.json \/ f.value.type # "request"}

\* handleMessage never looks at the socket its frame came from, so the frames
\* of all the sockets that can deliver have the same effect: one such socket
\* stands for them
Deliverers ==
    LET able == {s \in SockIds : sock[s] \in {"open", "closing"}}
    IN  IF able = {} THEN {} ELSE {CHOOSE s \in able : TRUE}

\* the prices a caller passes to updatePricing
PriceUpdates == {[inputTokenPrice |-> "5", outputTokenPrice |-> "7"]}

Next ==
    \/ Start
    \/ Stop
    \/ \E p \in PriceUpdates : updatePricing(p.inputTokenPrice, p.outputTokenPrice)
    \/ \E s \in SockIds : SocketOpen(s)
    \/ \E s \in SockIds : PeerCloseFrame(s)
    \/ \E s \in SockIds, code \in CloseCodes : SocketClose(s, code)
    \/ \E s \in Deliverers, raw \in ControlFrames : SocketMessage(s, raw)
    \/ TimerFire
    \/ OrphanTimerFire

Spec == Init /\ [][Next]_vars

\* A client run in sessions: start() is called only on a client that holds
\* no socket and has no reconnect timer pending, so that the sockets of two
\* sessions never overlap.
Idle == reconnectTimer = "null" /\ \A s \in SockIds : sock[s] = "none"

NextSession ==
    \/ Idle /\ Start
    \/ Stop
    \/ \E p \in PriceUpdates : updatePricing(p.inputTokenPrice, p.outputTokenPrice)
    \/ \E s \in SockIds : SocketOpen(s)
    \/ \E s \in SockIds : PeerCloseFrame(s)
    \/ \E s \in SockIds, code \in CloseCodes : SocketClose(s, code)
    \/ \E s \in Deliverers, raw \in ControlFrames : SocketMessage(s, raw)
    \/ TimerFire

SpecSession == Init /\ [][NextSession]_vars

\* Sessions in which a pending reconnect timer fires in the end: setTimeout
\* runs its callback unless clearTimeout cancels it.
SpecSessionFair == SpecSession /\ WF_vars(TimerFire)

\* The relay: one call of handleIncomingRequest and the callbacks node:http
\* runs for it.
FirstCall == {c \in Calls : c = 1}
NextRelay ==
    \/ \E c \in FirstCall, id \in RequestIds, body \in Bodies, cfgOk \in BOOLEAN :
          FrameTurn /\ Request(c, id, body, cfgOk)
    \/ \E c \in FirstCall : NoJob /\ ReqTimeout(c)
    \/ \E c \in FirstCall : NoJob /\ ReqError(c)
    \/ \E c \in FirstCall, st \in HttpStatuses : NoJob /\ Response(c, st)
    \/ \E c \in FirstCall, chunk \in Chunks : ErrorTurn(c) /\ ResData(c, chunk)
    \/ \E c \in FirstCall : ErrorTurn(c) /\ ResEnd(c)
    \/ \E c \in FirstCall : ErrorTurn(c) /\ ResError(c)
    \/ \E c \in FirstCall : ErrorTurn(c) /\ TransportClose(c)
    \/ \E c \in FirstCall : AfterAwait(c)
    \/ \E c \in FirstCall : ThenCount(c)

SpecRelay == Init /\ [][NextRelay]_vars

\* The relay with a gateway exchange that does not stall: as long as node
\* has a callback to run for the call (response, data, end, error, timeout,
\* close), one of them runs.
SpecRelayFair == SpecRelay /\ WF_vars(NextRelay)

\* One streaming call whose body is one of SseStreams, cut by the transport
\* into chunks at any place.
CanProduce(c, chunk) ==
    \E s \in SseStreams :
        LET text == concat(chunks[c]) \o chunk
        IN  Len(text) <= Len(s) /\ text = SubSeq(s, 1, Len(text))
NextStream ==
    \/ \E c \in FirstCall, id \in RequestIds :
          FrameTurn /\ Request(c, id, [stream |-> TRUE], TRUE)
    \/ \E c \in FirstCall : NoJob /\ ReqTimeout(c)
    \/ \E c \in FirstCall : NoJob /\ ReqError(c)
    \/ \E c \in FirstCall, st \in HttpStatuses : NoJob /\ Response(c, st)
    \/ \E c \in FirstCall, chunk \in Fragments :
          ErrorTurn(c) /\ CanProduce(c, chunk) /\ ResData(c, chunk)
    \/ \E c \in FirstCall : ErrorTurn(c) /\ ResEnd(c)
    \/ \E c \in FirstCall : ErrorTurn(c) /\ ResError(c)
    \/ \E c \in FirstCall : ErrorTurn(c) /\ TransportClose(c)
    \/ \E c \in FirstCall : AfterAwait(c)
    \/ \E c \in FirstCall : ThenCount(c)

SpecStream == Init /\ [][NextStream]_vars

\* Two calls of handleIncomingRequest in flight side by side, numbered in the
\* order they are made, the callbacks of the two HTTP exchanges interleaved
\* in every order.
PairCalls == {c \in Calls : c <= 2}
PairChunks ==
    {<<"data: completed", LF, LF>>,
     <<"data: completed", LF, LF, "data: completed-b", LF, LF>>,
     <<"json">>}
\* the gateway answers a streaming request with events and any other with a
\* JSON document
Answers(c, chunk) == (chunk = <<"json">>) <=> ~isStreaming[c]
NextPair ==
    \/ \E c \in PairCalls \cap NextCalls, id \in RequestIds, body \in Bodies, cfgOk \in BOOLEAN :
          FrameTurn /\ Request(c, id, body, cfgOk)
    \/ \E c \in PairCalls : NoJob /\ ReqTimeout(c)
    \/ \E c \in PairCalls : NoJob /\ ReqError(c)
    \/ \E c \in PairCalls, st \in HttpStatuses : NoJob /\ Response(c, st)
    \/ \E c \in PairCalls, chunk \in PairChunks :
          /\ ErrorTurn(c) /\ Len(chunks[c]) < MaxPairChunks
          /\ Answers(c, chunk) /\ ResData(c, chunk)
    \/ \E c \in PairCalls : ErrorTurn(c) /\ ResEnd(c)
    \/ \E c \in PairCalls : ErrorTurn(c) /\ ResError(c)
    \/ \E c \in PairCalls : ErrorTurn(c) /\ TransportClose(c)
    \/ \E c \in PairCalls : AfterAwait(c)
    \/ \E c \in PairCalls : ThenCount(c)

SpecPair == Init /\ [][NextPair]_vars

\* A session that serves requests: the public API, the socket events and the
\* reconnect timer, the frames of an authenticated session (auth_ok, ping,
\* request), and the node:http callbacks and promise jobs of the two calls
\* the request frames start, interleaved in every order the event loop
\* allows.  The peer's close frame can follow a request frame in one chunk,
\* before the continuation of that call runs.
ServeFrames ==
    {raw \in RawFrames :
        /\ raw.json
        /\ \/ raw.value.type = "request"
           \/ raw.value = [type |-> "ping", ts |-> 11]
           \/ raw.value = [type |-> "auth_ok", pluginId |-> "p-1",
                           protocol |-> SIXERR_PROTOCOL_VERSION]}

\* the gateway of a serving session answers 200 (its refusals are in
\* SpecRelay and SpecPair)
ServeStatuses == {200}
ServeChunks == {<<"data: completed", LF, LF>>, <<"json">>}
\* the request frames are taken while one of the two calls is still to be made
ServeFrame(raw) ==
    raw \in ServeFrames /\ (raw.value.type = "request" => FreeCalls \cap PairCalls # {})
NextServe ==
    \/ NoJob /\ Idle /\ Start
    \/ NoJob /\ Stop
    \/ NoJob /\ \E p \in PriceUpdates : updatePricing(p.inputTokenPrice, p.outputTokenPrice)
    \/ NoJob /\ \E s \in SockIds : SocketOpen(s)
    \/ FrameTurn /\ \E s \in SockIds : PeerCloseFrame(s)
    \/ NoJob /\ \E s \in SockIds, code \in CloseCodes : SocketClose(s, code)
    \/ NoJob /\ TimerFire
    \/ FrameTurn /\ \E s \in Deliverers, raw \in ServeFrames :
          ServeFrame(raw) /\ SocketMessage(s, raw)
    \/ \E c \in PairCalls : NoJob /\ ReqTimeout(c)
    \/ \E c \in PairCalls : NoJob /\ ReqError(c)
    \/ \E c \in PairCalls, st \in ServeStatuses : NoJob /\ Response(c, st)
    \/ \E c \in PairCalls, chunk \in ServeChunks :
          /\ ErrorTurn(c) /\ Len(chunks[c]) < MaxPairChunks
          /\ Answers(c, chunk) /\ ResData(c, chunk)
    \/ \E c \in PairCalls : ErrorTurn(c) /\ ResEnd(c)
    \/ \E c \in PairCalls : ErrorTurn(c) /\ ResError(c)
    \/ \E c \in PairCalls : ErrorTurn(c) /\ TransportClose(c)
    \/ \E c \in PairCalls : AfterAwait(c)
    \/ \E c \in PairCalls : ThenCount(c)

SpecServe == Init /\ [][NextServe]_vars

\* --------------------------------------------------------------- payment
\* One call of SixerrClient.respond() or, through the proxy's
\* handleResponses, of respondRaw(); payPc is where it stands:
\*   "idle"      not called
\*   "first"     the first fetch() is awaited
\*   "body"      the first response is a 402 and firstRes.json() is awaited
\*   "signing"   signPermit2Payment awaits signer.signTypedData, or has
\*               returned the token (payCall.signed) to a caller that has
\*               not resumed yet
\*   "retry"     the second fetch() is awaited
\*   "returned"  the call returned a Response
\*   "thrown"    the call threw
\*   "reading"   handleResponses awaits upstream.text()
\*   "replied"   the proxy has answered its caller
PERMIT2_ADDRESS == "0x000000000022D473030F116dDEE9F6B43aC78BA3"
PayUrls == {"https://sixerr.ai/v1/responses", "https://sixerr.ai/v1/responses/agent-1"}
PayBodies == {"{input:a}", "{input:b,stream:true}"}
\* request bodies the proxy's caller sends: those above and text that is not JSON
ProxyBodyTexts == PayBodies \cup {"{input:", ""}
PayStatuses == {200, 402, 500}
\* amounts a caller passes: none, a decimal one, one BigInt() reads as 16 and
\* one it rejects
Amounts == {"", "9", "0x10", "1.5"}
PayConfig == [signer |-> [address |-> "0xSigner"], maxAmount |-> ""]
PayConfigs == {PayConfig, [PayConfig EXCEPT !.maxAmount = "8"]}

\* the entries of an accepts list
Permit2Requirements(network, maxCost) ==
    [scheme |-> "permit2", network |-> network, asset |-> "0xToken",
     permit2Terminal |-> "0xTerminal", maxCost |-> maxCost, maxTimeoutSeconds |-> 60]
OtherRequirements ==
    [scheme |-> "exact", network |-> "eip155:8453", asset |-> "0xToken",
     permit2Terminal |-> "", maxCost |-> "5", maxTimeoutSeconds |-> 60]

\* the bodies of a 402 response: json is whether firstRes.json() returns,
\* listed whether the document has an accepts member
PaymentBodies ==
    {[json |-> FALSE, listed |-> FALSE, accepts |-> <<>>],
     [json |-> TRUE, listed |-> FALSE, accepts |-> <<>>],
     [json |-> TRUE, listed |-> TRUE, accepts |-> <<>>],
     [json |-> TRUE, listed |-> TRUE, accepts |-> <<OtherRequirements>>],
     [json |-> TRUE, listed |-> TRUE, accepts |-> <<Permit2Requirements("eip155:8453", "5")>>],
     [json |-> TRUE, listed |-> TRUE,
      accepts |-> <<OtherRequirements, Permit2Requirements("8453", "7"),
                    Permit2Requirements("eip155:8453", "5")>>],
     [json |-> TRUE, listed |-> TRUE, accepts |-> <<Permit2Requirements("eip155:base", "5")>>]}

\* the headers of the first fetch()
BaseHeaders == {<<"Content-Type", "application/json">>}

\* a retry that sends the payment header alone
RetryHeaders_PaymentOnly(headers, xPayment) == {<<"X-PAYMENT", xPayment>>}

\* { ...headers, "X-PAYMENT": xPayment }
RetryHeaders(headers, xPayment) ==
    {h \in headers : h[1] # "X-PAYMENT"} \cup {<<"X-PAYMENT", xPayment>>}

\* a client that pays on every refusal
NeedsPayment_AnyRefusal(st) == st >= 400

\* firstRes.status !== 402 decides between returning and paying
NeedsPayment(st) == st = 402

\* a find that takes the first entry of the list, whatever its scheme
find_FirstEntry(paymentBody) ==
    IF ~paymentBody.listed \/ paymentBody.accepts = <<>> THEN [found |-> FALSE]
    ELSE [found |-> TRUE, value |-> paymentBody.accepts[1]]

\* paymentBody.accepts?.find((a) => a.scheme === "permit2")
find(paymentBody) ==
    LET at == {i \in 1..Len(paymentBody.accepts) : paymentBody.accepts[i].scheme = "permit2"}
    IN  IF ~paymentBody.listed \/ at = {} THEN [found |-> FALSE]
        ELSE [found |-> TRUE,
              value |-> paymentBody.accepts[CHOOSE i \in at : \A j \in at : i <= j]]

\* a choice of amount that puts the configured ceiling before the override
Coalesce_CeilingFirst(a, b, c) == IF b # "" THEN b ELSE IF a # "" THEN a ELSE c

\* a ?? b ?? c, "" standing for undefined
Coalesce(a, b, c) == IF a # "" THEN a ELSE IF b # "" THEN b ELSE c

\* parseChainId(network): the text after the last ":" through Number();
\* nan is isNaN(id), on which it throws
parseChainId(network) ==
    LET last == CASE network = "eip155:8453" -> "8453"
                  [] network = "8453" -> "8453"
                  [] network = "eip155:base" -> "base"
    IN  IF last = "8453" THEN [nan |-> FALSE, id |-> 8453] ELSE [nan |-> TRUE, id |-> 0]

\* BigInt(text): decimal and 0x-prefixed digits give their value, anything
\* else makes it throw (nan)
BigInt(text) ==
    CASE text = "5" -> [nan |-> FALSE, value |-> 5]
      [] text = "7" -> [nan |-> FALSE, value |-> 7]
      [] text = "8" -> [nan |-> FALSE, value |-> 8]
      [] text = "9" -> [nan |-> FALSE, value |-> 9]
      [] text = "0x10" -> [nan |-> FALSE, value |-> 16]
      [] OTHER -> [nan |-> TRUE, value |-> 0]

\* signPermit2Payment up to its await: t is what Date.now() returns for the
\* nonce, t2 what it returns for the deadline
typedDataOf(requirements, maxAmount, t, t2) ==
    [domain |-> [name |-> "Permit2", chainId |-> parseChainId(requirements.network).id,
                 verifyingContract |-> PERMIT2_ADDRESS],
     primaryType |-> "PermitTransferFrom",
     message |-> [permitted |-> [token |-> requirements.asset,
                                 amount |-> BigInt(maxAmount).value],
                  spender |-> requirements.permit2Terminal,
                  nonce |-> t,
                  deadline |-> (t2 \div 1000) + requirements.maxTimeoutSeconds]]

\* what a signer that signs returns for typedData
signTypedData(signer, typedData) == [by |-> signer.address, over |-> typedData]

\* signPermit2Payment after its await: btoa(JSON.stringify(payload))
btoa(payload) == [base64 |-> payload]
\* a payload that states the requirement's maxCost as the amount
payloadOf_CostAmount(signer, requirements, maxAmount, typedData, signature) ==
    [sender |-> signer.address,
     permit |-> [permitted |-> [token |-> requirements.asset, amount |-> requirements.maxCost],
                 nonce |-> ToString(typedData.message.nonce),
                 deadline |-> typedData.message.deadline],
     signature |-> signature]

payloadOf(signer, requirements, maxAmount, typedData, signature) ==
    [sender |-> signer.address,
     permit |-> [permitted |-> [token |-> requirements.asset, amount |-> maxAmount],
                 nonce |-> ToString(typedData.message.nonce),
                 deadline |-> typedData.message.deadline],
     signature |-> signature]

\* fetch(url, { method: "POST", headers, body })
Post(url, headers, body) == [method |-> "POST", url |-> url, headers |-> headers, body |-> body]

\* respond(options) / respondRaw(rawBody) up to the first await
Respond(via, cfg, url, body, maxAmountOverride) ==
    /\ payPc = "idle"
    /\ via = "proxy" => maxAmountOverride = ""
    /\ payPc' = "first"
    /\ payCall' = [via |-> via, config |-> cfg, url |-> url, body |-> body,
                   maxAmountOverride |-> maxAmountOverride,
                   firstStatus |-> 0, paymentBody |-> <<>>, signed |-> FALSE]
    /\ posts' = <<Post(url, BaseHeaders, body)>>
    /\ UNCHANGED <<signCalls, pending, payOut, proxyStatus, proxyReplies, now, auths,
                   clientVars, relayVars, backoffVars, requestCount, signings>>

\* a fetch() that rejects (the network fails): the call throws
FetchRejects ==
    /\ payPc \in {"first", "retry"}
    /\ payPc' = "thrown"
    /\ payOut' = [kind |-> "error", message |-> "fetch failed"]
    /\ UNCHANGED <<payCall, posts, signCalls, pending, proxyStatus, proxyReplies, now, auths,
                   clientVars, relayVars, backoffVars, requestCount, signings>>

\* the first fetch() resolves with status st: any status but 402 is returned
\* as it is, on a 402 the call goes on to read the body
FirstResponse(st) ==
    /\ payPc = "first"
    /\ payCall' = [payCall EXCEPT !.firstStatus = st]
    /\ IF ~NeedsPayment(st)
       THEN /\ payPc' = "returned"
            /\ payOut' = [kind |-> "response", status |-> st]
       ELSE /\ payPc' = "body"
            /\ UNCHANGED payOut
    /\ UNCHANGED <<posts, signCalls, pending, now, proxyStatus, proxyReplies, auths,
                   clientVars, relayVars, backoffVars, requestCount, signings>>

\* firstRes.json() settles with paymentBody: the requirement is picked and
\* signPermit2Payment runs up to its await of the signer
FirstBody(paymentBody) ==
    /\ payPc = "body"
    /\ payCall' = [payCall EXCEPT !.paymentBody = paymentBody]
    /\ UNCHANGED <<posts, proxyStatus, proxyReplies, auths, clientVars, relayVars, backoffVars,
                   requestCount, signings>>
    /\ IF ~paymentBody.json
       THEN /\ payPc' = "thrown"
            /\ payOut' = [kind |-> "error", message |-> "invalid json"]
            /\ UNCHANGED <<signCalls, pending, now>>
       ELSE IF ~find(paymentBody).found
       THEN /\ payPc' = "thrown"
            /\ payOut' = [kind |-> "error",
                          message |-> "Server returned 402 but no Permit2 payment scheme found"]
            /\ UNCHANGED <<signCalls, pending, now>>
       ELSE LET requirements == find(paymentBody).value
                maxAmount == Coalesce(payCall.maxAmountOverride, payCall.config.maxAmount,
                                      requirements.maxCost)
            IN  IF parseChainId(requirements.network).nan
                THEN /\ payPc' = "thrown"
                     /\ payOut' = [kind |-> "error", message |-> "Cannot parse chain ID"]
                     /\ UNCHANGED <<signCalls, pending, now>>
                ELSE IF BigInt(maxAmount).nan
                THEN /\ payPc' = "thrown"
                     /\ payOut' = [kind |-> "error", message |-> "Cannot convert to a BigInt"]
                     /\ now' \in ClockReads(now)
                     /\ UNCHANGED <<signCalls, pending>>
                ELSE /\ payPc' = "signing"
                     /\ signCalls' = signCalls + 1
                     /\ now' \in ClockReads(now)
                     /\ pending' = [requirements |-> requirements, maxAmount |-> maxAmount,
                                    typedData |-> typedDataOf(requirements, maxAmount, now, now')]
                     /\ UNCHANGED payOut

\* signer.signTypedData resolves: signPermit2Payment resumes after its
\* await, builds the payload and returns the header value; the caller, which
\* awaits signPermit2Payment, resumes in a later promise job
SignerReturns ==
    /\ payPc = "signing"
    /\ ~payCall.signed
    /\ LET signature == signTypedData(payCall.config.signer, pending.typedData)
       IN  auths' = Append(auths, payloadOf(payCall.config.signer, pending.requirements,
                                            pending.maxAmount, pending.typedData, signature))
    /\ payCall' = [payCall EXCEPT !.signed = TRUE]
    /\ pending' = <<>>
    /\ UNCHANGED <<payPc, posts, signCalls, payOut, proxyStatus, proxyReplies, now,
                   clientVars, relayVars, backoffVars, requestCount, signings>>

\* the caller resumed after its await of signPermit2Payment: xPayment is the
\* header value that call returned, and the retry is issued with it
PostRetry ==
    /\ payPc = "signing"
    /\ payCall.signed
    /\ LET xPayment == btoa(auths[Len(auths)])
       IN  posts' = Append(posts, Post(payCall.url, RetryHeaders(BaseHeaders, xPayment),
                                      payCall.body))
    /\ payPc' = "retry"
    /\ UNCHANGED <<payCall, signCalls, pending, payOut, proxyStatus, proxyReplies, now, auths,
                   clientVars, relayVars, backoffVars, requestCount, signings>>

\* signer.signTypedData rejects: the call throws
SignerThrows ==
    /\ payPc = "signing"
    /\ ~payCall.signed
    /\ payPc' = "thrown"
    /\ payOut' = [kind |-> "error", message |-> "signer failed"]
    /\ pending' = <<>>
    /\ UNCHANGED <<payCall, posts, signCalls, proxyStatus, proxyReplies, now, auths,
                   clientVars, relayVars, backoffVars, requestCount, signings>>

\* the second fetch() resolves: its Response is what the call returns
SecondResponse(st) ==
    /\ payPc = "retry"
    /\ payPc' = "returned"
    /\ payOut' = [kind |-> "response", status |-> st]
    /\ UNCHANGED <<payCall, posts, signCalls, pending, proxyStatus, proxyReplies, now, auths,
                   clientVars, relayVars, backoffVars, requestCount, signings>>

\* a handleResponses that forwards whatever body text it has read
JSONparseBody_Lenient(bodyText) == [ok |-> TRUE, value |-> bodyText]

\* JSON.parse(bodyText) of handleResponses: throws on text that is not JSON
JSONparseBody(bodyText) ==
    IF bodyText \in PayBodies THEN [ok |-> TRUE, value |-> bodyText] ELSE [ok |-> FALSE]

\* handleResponses(client, req, res, agentId) up to its await of
\* client.respondRaw: readOk is whether readBody(req) resolves
handleResponses(cfg, url, bodyText, readOk) ==
    /\ payPc = "idle"
    /\ IF readOk /\ JSONparseBody(bodyText).ok
       THEN Respond("proxy", cfg, url, JSONparseBody(bodyText).value, "")
       ELSE /\ payPc' = "replied"
            /\ payCall' = [NoCall EXCEPT !.via = "proxy", !.config = cfg, !.url = url,
                                         !.body = bodyText]
            /\ proxyStatus' = 400
            /\ proxyReplies' = Append(proxyReplies, [status |-> 400, error |-> "Invalid JSON body"])
            /\ UNCHANGED <<posts, signCalls, pending, payOut, now, auths,
                           clientVars, relayVars, backoffVars, requestCount, signings>>

\* what the proxy writes after client.respondRaw: 502 with the message of
\* a thrown error, 500 when the body of the upstream response cannot be read
\* (the rejection of upstream.text() leaves handleResponses and is caught by
\* createHttpProxy), else the upstream status
replyOf(pc, outcome) ==
    CASE pc = "thrown" -> [status |-> 502, error |-> outcome.message]
      [] pc = "unreadable" -> [status |-> 500, error |-> "Internal proxy error"]
      [] OTHER -> [status |-> outcome.status, error |-> ""]

\* handleResponses after its await of client.respondRaw: the catch block
\* answers a thrown error; an event stream (sse) is answered with the upstream
\* status and piped; of any other response the body is read first
ProxyReply(sse) ==
    /\ payCall.via = "proxy"
    /\ payPc \in {"returned", "thrown"}
    /\ IF payPc = "thrown" \/ sse
       THEN /\ payPc' = "replied"
            /\ proxyStatus' = replyOf(payPc, payOut).status
            /\ proxyReplies' = Append(proxyReplies, replyOf(payPc, payOut))
       ELSE /\ payPc' = "reading"
            /\ UNCHANGED <<proxyStatus, proxyReplies>>
    /\ UNCHANGED <<payCall, posts, signCalls, pending, payOut, now, auths,
                   clientVars, relayVars, backoffVars, requestCount, signings>>

\* upstream.text() settles: readable is whether the body arrived whole; if
\* not, text() rejects with the error of the body stream ("terminated")
UpstreamText(readable) ==
    /\ payPc = "reading"
    /\ payPc' = "replied"
    /\ payOut' = IF readable THEN payOut ELSE [kind |-> "error", message |-> "terminated"]
    /\ LET reply == replyOf(IF readable THEN payPc ELSE "unreadable", payOut)
       IN  /\ proxyStatus' = reply.status
           /\ proxyReplies' = Append(proxyReplies, reply)
    /\ UNCHANGED <<payCall, posts, signCalls, pending, now, auths,
                   clientVars, relayVars, backoffVars, requestCount, signings>>

\* the clock moves on by a millisecond
Tick ==
    /\ now < ClockStart + MaxNow
    /\ now' = now + 1
    /\ UNCHANGED <<payPc, payCall, posts, signCalls, pending, payOut, proxyStatus, proxyReplies, auths,
                   clientVars, relayVars, backoffVars, requestCount, signings>>

NextPay ==
    \/ \E cfg \in PayConfigs, url \in PayUrls, body \in PayBodies,
          maxAmountOverride \in Amounts :
             Respond("respond", cfg, url, body, maxAmountOverride)
    \/ \E cfg \in PayConfigs, url \in PayUrls, bodyText \in ProxyBodyTexts, readOk \in BOOLEAN :
          handleResponses(cfg, url, bodyText, readOk)
    \/ FetchRejects
    \/ \E st \in PayStatuses : FirstResponse(st)
    \/ \E paymentBody \in PaymentBodies : FirstBody(paymentBody)
    \/ SignerReturns
    \/ PostRetry
    \/ SignerThrows
    \/ \E st \in PayStatuses : SecondResponse(st)
    \/ \E sse \in BOOLEAN : ProxyReply(sse)
    \/ \E readable \in BOOLEAN : UpstreamText(readable)
    \/ Tick

SpecPay == Init /\ [][NextPay]_vars

\* signPermit2Payment called on its own, up to its await of the signer
SignPayment(requirements, maxAmount) ==
    /\ Len(auths) + Len(signings) < MaxSigns
    /\ ~parseChainId(requirements.network).nan
    /\ ~BigInt(maxAmount).nan
    /\ now' \in ClockReads(now)
    /\ signings' = Append(signings,
                          [requirements |-> requirements, maxAmount |-> maxAmount,
                           typedData |-> typedDataOf(requirements, maxAmount, now, now')])
    /\ UNCHANGED <<payPc, payCall, posts, signCalls, pending, payOut, proxyStatus, proxyReplies,
                   auths, clientVars, relayVars, backoffVars, requestCount>>

\* the signer of the i-th waiting call answers: the call builds its token
SignatureArrives(i) ==
    /\ i \in 1..Len(signings)
    /\ LET call == signings[i]
       IN  auths' = Append(auths,
                           payloadOf(PayConfig.signer, call.requirements, call.maxAmount,
                                     call.typedData,
                                     signTypedData(PayConfig.signer, call.typedData)))
    /\ signings' = SubSeq(signings, 1, i - 1) \o SubSeq(signings, i + 1, Len(signings))
    /\ UNCHANGED <<payPc, payCall, posts, signCalls, pending, payOut, proxyStatus, proxyReplies,
                   now, clientVars, relayVars, backoffVars, requestCount>>

NextSign ==
    \/ \E network \in {"eip155:8453", "8453"}, maxAmount \in {"5", "7", "9"} :
          SignPayment(Permit2Requirements(network, "5"), maxAmount)
    \/ \E i \in 1..MaxSigns : SignatureArrives(i)
    \/ Tick

SpecSign == Init /\ [][NextSign]_vars

\* ------------------------------------------------- computeBackoff on its own
\* policies handed to computeBackoff: the default one, the ones of the unit
\* tests, and policies whose factor is not a whole number
BackoffPolicies ==
    {DEFAULT_RECONNECT_POLICY,
     [DEFAULT_RECONNECT_POLICY EXCEPT !.jitterPct = 0],
     [DEFAULT_RECONNECT_POLICY EXCEPT !.jitterPct = 100],
     [initialMs |-> 500, maxMs |-> 10000, factor |-> 3, factorDen |-> 1, jitterPct |-> 10]}
    \cup {[initialMs |-> 10, maxMs |-> 40, factor |-> 5, factorDen |-> 4, jitterPct |-> j] :
             j \in {0, 25, 100}}

\* one call computeBackoff(policy, attempt) whose Math.random() returns u/UDen
BackoffCall(policy, attempt, u) ==
    /\ backoff' = [policy |-> policy, attempt |-> attempt, u |-> u,
                   delay |-> computeBackoff(policy, attempt, u)]
    /\ UNCHANGED <<clientVars, relayVars, payVars, requestCount>>

NextBackoff ==
    \E policy \in BackoffPolicies, attempt \in 0..MaxBackoffAttempt, u \in UDraws :
        BackoffCall(policy, attempt, u)

SpecBackoff == Init /\ [][NextBackoff]_vars

\* ---------------------------------------------------------------- claims
\* the frames that parse and pass the schema, by type
ValidFrames == {raw \in RawFrames : JsonParse(raw).ok /\ ServerMessageSchema(raw.value)}
AuthOkFrames == {raw \in ValidFrames : raw.value.type = "auth_ok"}
AuthErrorFrames == {raw \in ValidFrames : raw.value.type = "auth_error"}
PingFrames == {raw \in ValidFrames : raw.value.type = "ping"}

\* at most one socket exists, it is the one the client holds unless the client
\* has closed it, and no overwritten timer is pending: the states of a client on
\* which start() is only ever called when no socket and no timer exists
SingleSocket ==
    /\ Cardinality({s \in SockIds : sock[s] # "none"}) <= 1
    /\ LiveSocks \subseteq {ws}
    /\ orphanTimers = 0

\* some socket can deliver a frame: the guard of SocketMessage
CanDeliver == \E s \in SockIds : sock[s] \in {"open", "closing"}

Attempt1Delays == {computeBackoff(DEFAULT_RECONNECT_POLICY, 1, u) : u \in UDraws}

\* C1: in every reachable state the client has at most one live (connecting
\* or open) socket.
C1_AtMostOneLiveSocket == Cardinality(LiveSocks) <= 1

\* the positions of the terminal messages among those call c handed over
Terminals(c) ==
    {i \in 1..Len(out[c]) : out[c][i].type \in {"response", "stream_end", "error"}}

\* call c has settled its promise and the continuation that sends what it
\* settled with is still queued
Resuming(c) ==
    \E i \in 1..Len(microtasks) :
        microtasks[i].call = c /\ microtasks[i].step = "await"

\* C2: a call of handleIncomingRequest never hands more than one terminal
\* message (response, stream_end, error) to the send path, and once its HTTP
\* exchange is over and its continuation has run it has handed over exactly
\* one.
C2_ExactlyOneTerminal ==
    \A c \in Calls :
        /\ Cardinality(Terminals(c)) <= 1
        /\ (tr[c] = "closed" /\ ~Resuming(c)) => Cardinality(Terminals(c)) = 1

\* C3: for a streaming request, no call emits both a stream_end and an error,
\* in either order.
C3_EndAndErrorExclusive ==
    \A c \in Calls :
        isStreaming[c] =>
            ~ \E i, j \in 1..Len(out[c]) :
                  out[c][i].type = "stream_end" /\ out[c][j].type = "error"

\* C4: stop() leaves the status disconnected, no socket held and no reconnect
\* timer pending; and from then until start() the status stays disconnected
\* and no socket is created, whatever event arrives.  Stated for SingleSocket
\* states, so that a violation does not rest on a second socket (C1).
C4_StopIsFinal ==
    [][ SingleSocket =>
          /\ Stop => /\ status' = "disconnected"
                     /\ ws' = 0
                     /\ reconnectTimer' # "pending"
          /\ (closedBy = "stop" /\ closedBy' = "stop")
                => /\ status' = "disconnected"
                   /\ FreeSocks \subseteq FreeSocks' ]_vars

\* C5: a valid auth_error closes the client's socket and makes the status
\* disconnected; from then until start() no reconnect is scheduled, no socket
\* is created and the status remains disconnected.  Stated for SingleSocket
\* states.
C5_AuthErrorIsFinal ==
    [][ SingleSocket =>
          /\ \A s \in SockIds, raw \in AuthErrorFrames :
                SocketMessage(s, raw)
                   => /\ status' = "disconnected"
                      /\ ws' = 0
                      /\ ws # 0 => sock'[ws] \in {"closing", "aborting"}
          /\ (closedBy = "auth_error" /\ closedBy' = "auth_error")
                => /\ status' = "disconnected"
                   /\ reconnectTimer' = "pending" => reconnectTimer = "pending"
                   /\ FreeSocks \subseteq FreeSocks' ]_vars

\* C6: an abnormal close (code neither 1000 nor 1012) while not stopped makes
\* the status reconnecting with a timer pending; the timer firing makes it
\* connecting with a new socket; and when that new socket opens, an auth
\* message with the current credential is written to it.
C6_AbnormalCloseReconnects ==
    [][ /\ \A s \in SockIds, code \in CloseCodes \ {CLOSE_NORMAL, CLOSE_RESTART} :
              (SocketClose(s, code) /\ ~closed)
                 => status' = "reconnecting" /\ reconnectTimer' = "pending"
        /\ ((TimerFire \/ OrphanTimerFire) /\ ~closed)
              => /\ status' = "connecting"
                 /\ ws' \in FreeSocks
                 /\ sock'[ws'] = "connecting"
        /\ \A s \in SockIds :
              (SocketOpen(s) /\ s = timerSock)
                 => sent' = <<[sock |-> s, msg |-> AuthMessage(config)]>> ]_vars

\* C7: a close event carrying code 1000 never puts the client in reconnecting
\* and never schedules a reconnect.  Stated for SingleSocket states.
C7_NormalCloseNeverReconnects ==
    (lastClose.code = CLOSE_NORMAL /\ SingleSocket)
        => status # "reconnecting" /\ reconnectTimer # "pending"

\* C8: the status becomes connected only by a valid auth_ok (protocol equal to
\* SIXERR_PROTOCOL_VERSION) received while authenticating, and that step
\* resets the attempt counter and stores the message's pluginId.  Stated for
\* SingleSocket states.
C8_ConnectedOnlyFromAuthenticating ==
    [][ (status' = "connected" /\ status # "connected" /\ SingleSocket)
          => /\ status = "authenticating"
             /\ reconnectAttempt' = 0
             /\ \E s \in SockIds, raw \in AuthOkFrames :
                   /\ SocketMessage(s, raw)
                   /\ pluginId' = raw.value.pluginId ]_vars

\* C9: a close with the restart code 1012 while the client is not stopped
\* resets the attempt counter before the delay is computed: the counter is 1
\* and the delay is computeBackoff(policy, 1), whatever the counter was.
C9_RestartResetsBackoff ==
    (lastClose.code = CLOSE_RESTART /\ ~closed)
        => /\ reconnectAttempt = 1
           /\ delayMs \in Attempt1Delays
           /\ status = "reconnecting"
           /\ reconnectTimer = "pending"

\* C9 witness: a 1012 close arrived while the counter stood at 2 or more, and
\* the reconnect was scheduled with the counter at 1.
C9_Witness ==
    /\ lastClose.code = CLOSE_RESTART
    /\ lastClose.attempt >= 2
    /\ ~closed
    /\ reconnectAttempt = 1
    /\ reconnectTimer = "pending"

\* C10 as stated: every valid ping{ts:T} handled results in exactly one pong
\* with the same T being written.  Stated for SingleSocket states.
C10_EveryPingAnswered ==
    [][ \A raw \in PingFrames :
           (handleMessage(raw) /\ CanDeliver /\ SingleSocket)
              => /\ Len(sent') = 1
                 /\ sent'[1].msg = [type |-> "pong", ts |-> raw.value.ts] ]_vars

\* C10 amended: a valid ping{ts:T} handled while the client's current socket
\* is open writes exactly one pong{ts:T} to that socket; handled while the
\* client holds no open socket it writes nothing.
C10_PingAnsweredWhileOpen ==
    [][ \A raw \in PingFrames :
           (handleMessage(raw) /\ CanDeliver)
              => IF ws # 0 /\ sock[ws] = "open"
                 THEN sent' = <<[sock |-> ws, msg |-> [type |-> "pong", ts |-> raw.value.ts]]>>
                 ELSE sent' = <<>> ]_vars

\* C10 witness: a pong carrying the second timestamp has just been written to
\* the client's open socket.
C10_Witness ==
    /\ ws # 0
    /\ sock[ws] = "open"
    /\ sent = <<[sock |-> ws, msg |-> [type |-> "pong", ts |-> 12]]>>

\* the events of the stream_event messages call c has sent, in order
StreamEvents(c) ==
    LET evs == SelectSeq(out[c], LAMBDA m : m.type = "stream_event")
    IN  [i \in 1..Len(evs) |-> evs[i].event]

\* the events of the parts that the body received so far has completed
BackendEvents(c) == decodeParts(popped(split(concat(chunks[c]))))

\* C11: after every callback of a streaming call whose response is an event
\* stream, the stream_event messages sent under its id are exactly the
\* decodable events of the parts received so far, in the order of the body:
\* none lost, duplicated, reordered or held back
C11_EventsInBackendOrder ==
    \A c \in Calls :
        SseListening(c) =>
            /\ StreamEvents(c) = BackendEvents(c)
            /\ \A i \in 1..Len(out[c]) : out[c][i].id = reqId[c]

\* C11 witness: a body cut inside a blank line, two events sent
C11_Witness ==
    \E c \in Calls :
        /\ SseListening(c)
        /\ Len(chunks[c]) >= 2
        /\ chunks[c][1][Len(chunks[c][1])] = LF
        /\ chunks[c][2][1] = LF
        /\ Len(StreamEvents(c)) >= 2
        /\ StreamEvents(c)[1] # StreamEvents(c)[2]

\* the terminal message types
TerminalTypes == {"response", "stream_end", "error"}

\* C12: a terminal message (response, stream_end, error) of a call is the
\* last message sent under its id: nothing follows it
C12_TerminalIsLast ==
    \A c \in Calls : \A i \in 1..Len(out[c]) :
        out[c][i].type \in TerminalTypes => i = Len(out[c])

\* the usage of the last response.completed event of events that carries
\* one; all zeros when there is none
RECURSIVE LastUsage(_)
LastUsage(events) ==
    IF events = <<>> THEN ZeroUsage
    ELSE LET e == events[Len(events)]
         IN  IF /\ e.type = "response.completed"
                /\ "response" \in DOMAIN e
                /\ "usage" \in DOMAIN e.response
             THEN e.response.usage
             ELSE LastUsage(SubSeq(events, 1, Len(events) - 1))

\* C13: every stream_end a call sends carries the usage of the last
\* response.completed event of that call's own body, zeros when its body
\* had none, whatever the other call received
C13_StreamEndUsage ==
    \A c \in Calls : \A i \in 1..Len(out[c]) :
        out[c][i].type = "stream_end" =>
            /\ out[c][i].id = reqId[c]
            /\ out[c][i].usage = LastUsage(BackendEvents(c))

\* C13 witness: two calls with distinct ids have each sent a stream_end,
\* one after two response.completed events, the other after one, and the
\* two usages differ
C13_Witness ==
    \E c, d \in Calls :
        /\ reqId[c] # reqId[d]
        /\ Len(BackendEvents(c)) = 2 /\ Len(BackendEvents(d)) = 1
        /\ \E i \in 1..Len(out[c]) :
               out[c][i].type = "stream_end" /\ out[c][i].usage = OtherUsage
        /\ \E j \in 1..Len(out[d]) :
               out[d][j].type = "stream_end" /\ out[d][j].usage = SomeUsage

\* the HTTP exchange of call c has started and its socket is still there
InFlight(c) == tr[c] \in {"waiting", "flowing", "destroyed", "broken", "ended"}

\* C14: while two calls with distinct ids are in flight side by side, each
\* has sent messages under its own id only and at most one terminal message
C14_EachItsOwnTerminal ==
    \A c, d \in Calls :
        (reqId[c] # reqId[d] /\ InFlight(c) /\ InFlight(d)) =>
            /\ \A i \in 1..Len(out[c]) : out[c][i].id = reqId[c]
            /\ Cardinality(Terminals(c)) <= 1

\* call c has been started and has sent no terminal message yet
Outstanding(c) == tr[c] # "none" /\ Terminals(c) = {}

\* C15: no two calls are outstanding under the same request id
C15_NoTwoCallsUnderOneId ==
    \A c, d \in Calls :
        (c # d /\ Outstanding(c) /\ Outstanding(d)) => reqId[c] # reqId[d]

\* C16: a call of respond()/respondRaw() issues at most two POSTs and asks
\* the signer at most once; a second POST is there only after the first was
\* answered 402 and the signer has signed
C16_AtMostTwoPostsOneSignature ==
    /\ Len(posts) <= 2
    /\ signCalls <= 1
    /\ Len(posts) = 2 => (payCall.firstStatus = 402 /\ payCall.signed /\ signCalls = 1)
    /\ \A i \in 1..Len(posts) : posts[i].method = "POST"

\* C16 witness: a call that has returned after its second POST
C16_Witness == payPc = "returned" /\ Len(posts) = 2 /\ signCalls = 1

\* C17: a call whose retry was answered 402 ends with an error, and the
\* proxy answers its own caller with the upstream-error status 502
C17_Second402IsFatal ==
    /\ ~(payCall.signed /\ payOut.kind = "response" /\ payOut.status = 402)
    /\ payCall.signed => proxyStatus # 402

\* C18: the retry goes to the url of the first POST with the same body, and
\* its headers are those of the first POST plus the one header X-PAYMENT,
\* whose value is the encoded payload signPermit2Payment built
C18_RetryIsFirstPlusPayment ==
    Len(posts) = 2 =>
        /\ posts[2].url = posts[1].url /\ posts[2].url = payCall.url
        /\ posts[2].body = posts[1].body /\ posts[2].body = payCall.body
        /\ \A h \in posts[1].headers : h[1] # "X-PAYMENT"
        /\ posts[2].headers =
              posts[1].headers \cup {<<"X-PAYMENT", btoa(auths[Len(auths)])>>}
        /\ auths[Len(auths)].sender = PayConfig.signer.address

\* C18 witness: the retry of a call with a stream body has been issued
C18_Witness ==
    /\ Len(posts) = 2
    /\ payCall.body = "{input:b,stream:true}"
    /\ payCall.url = "https://sixerr.ai/v1/responses/agent-1"

\* the 402 body the call has read lists no entry of scheme permit2
NoPermit2 ==
    /\ payCall.firstStatus = 402
    /\ payPc # "body"
    /\ payCall.paymentBody.json
    /\ \A i \in 1..Len(payCall.paymentBody.accepts) :
           ~payCall.paymentBody.listed \/ payCall.paymentBody.accepts[i].scheme # "permit2"

\* C19: a call answered 402 with no permit2 entry has thrown, the signer
\* was not asked and the first POST is the only one
C19_NoSchemeFails ==
    NoPermit2 =>
        /\ payPc \in {"thrown", "replied"}
        /\ payOut.kind = "error"
        /\ signCalls = 0
        /\ Len(posts) = 1
        /\ auths = <<>>

\* C19 witness: a 402 whose list holds an entry of another scheme only
C19_Witness ==
    /\ NoPermit2
    /\ payCall.paymentBody.listed /\ Len(payCall.paymentBody.accepts) = 1
    /\ payPc = "thrown"

\* C20: no two payloads signPermit2Payment has built carry the same nonce
C20_NoncesDistinct ==
    \A i, j \in 1..Len(auths) : i # j => auths[i].permit.nonce # auths[j].permit.nonce

\* the amounts a call has had signed, as numbers: the one in the typed data
\* handed to the signer and, once signed, the one in the payload
SignedAmounts ==
    (IF payPc = "signing" /\ ~payCall.signed
     THEN {pending.typedData.message.permitted.amount} ELSE {})
    \cup (IF payCall.signed
          THEN {BigInt(auths[Len(auths)].permit.permitted.amount).value,
                auths[Len(auths)].signature.over.message.permitted.amount}
          ELSE {})

\* C21: the amount a call has signed is its per-call override when one was
\* given, else the ceiling of the client's configuration when one was given,
\* else the maxCost of the permit2 requirement it chose
C21_AmountPriority ==
    \A amount \in SignedAmounts :
        /\ payCall.maxAmountOverride # "" => amount = BigInt(payCall.maxAmountOverride).value
        /\ (payCall.maxAmountOverride = "" /\ payCall.config.maxAmount # "") =>
               amount = BigInt(payCall.config.maxAmount).value
        /\ (payCall.maxAmountOverride = "" /\ payCall.config.maxAmount = "") =>
               amount = BigInt(find(payCall.paymentBody).value.maxCost).value

\* C21 witness: a signed call with an override, a ceiling and a maxCost that
\* differ from each other
C21_Witness ==
    /\ payCall.signed
    /\ payCall.maxAmountOverride = "9"
    /\ payCall.config.maxAmount = "8"
    /\ find(payCall.paymentBody).value.maxCost = "7"

\* the frames that replace a part of the credential
JwtFrames == {raw \in ValidFrames : raw.value.type = "jwt_refresh"}
PriceFrames == {raw \in ValidFrames : raw.value.type = "price_update_ack"}

\* the auth messages of the latest step carry the stored token and pricing
AuthCarriesCredential ==
    \A i \in 1..Len(sent) :
        sent[i].msg.type = "auth" =>
            /\ sent[i].msg.jwt = config.jwt
            /\ IF config.pricing.set
               THEN /\ "inputTokenPrice" \in DOMAIN sent[i].msg
                    /\ sent[i].msg.inputTokenPrice = config.pricing.inputTokenPrice
                    /\ sent[i].msg.outputTokenPrice = config.pricing.outputTokenPrice
               ELSE "inputTokenPrice" \notin DOMAIN sent[i].msg

\* C22: a jwt_refresh or price_update_ack frame replaces the stored token or
\* pricing by the value of the frame and calls the callback with that value,
\* while status, sockets, timers and the attempt counter stay as they are
\* and nothing is sent; and every auth message carries the token and the
\* pricing stored when it is sent
C22_CredentialReplaced ==
    /\ []AuthCarriesCredential
    /\ [][ /\ \A raw \in JwtFrames :
                (CanDeliver /\ handleMessage(raw)) =>
                    /\ config' = [config EXCEPT !.jwt = raw.value.jwt]
                    /\ notified' = [callback |-> "onJwtRefresh", arg |-> raw.value.jwt]
                    /\ sent' = <<>>
                    /\ UNCHANGED <<status, sock, ws, reconnectTimer, orphanTimers,
                                   reconnectAttempt, closed>>
           /\ \A raw \in PriceFrames :
                (CanDeliver /\ handleMessage(raw)) =>
                    /\ config'.jwt = config.jwt
                    /\ config'.pricing.set
                    /\ config'.pricing.inputTokenPrice = raw.value.inputTokenPrice
                    /\ config'.pricing.outputTokenPrice = raw.value.outputTokenPrice
                    /\ notified'.callback = "onPriceUpdateAck"
                    /\ notified'.arg = [inputTokenPrice |-> raw.value.inputTokenPrice,
                                        outputTokenPrice |-> raw.value.outputTokenPrice]
                    /\ sent' = <<>>
                    /\ UNCHANGED <<status, sock, ws, reconnectTimer, orphanTimers,
                                   reconnectAttempt, closed>> ]_vars

\* C22 witness: a socket opened after a jwt_refresh and a price_update_ack
\* had been received, and its auth message has been sent
C22_Witness ==
    /\ config.jwt = "jwt1"
    /\ config.pricing.set
    /\ \E i \in 1..Len(sent) : sent[i].msg.type = "auth"
    /\ reconnectAttempt >= 1

\* the frames that are not JSON, or are JSON of no server message type, with
\* a key the type does not have, with a member of the wrong type, or an
\* auth_ok of another protocol version
ServerTypes == {"request", "ping", "auth_ok", "auth_error", "jwt_refresh", "price_update_ack"}
InvalidFrames ==
    {raw \in RawFrames :
        \/ ~raw.json
        \/ raw.value.type \notin ServerTypes
        \/ "extra" \in DOMAIN raw.value
        \/ raw.value.type = "auth_error" /\ ~IsString(raw.value.message)
        \/ raw.value.type = "auth_ok" /\ raw.value.protocol # SIXERR_PROTOCOL_VERSION}

\* C23: the delivery of an invalid frame changes nothing of the client (status,
\* sockets, current socket, attempt counter, credential, request count, timers,
\* plugin id), sends nothing and calls no callback: a step that does change
\* or send something is not the delivery of an invalid frame
C23_InvalidFrameIgnored ==
    [][ \/ /\ UNCHANGED <<status, sock, ws, reconnectAttempt, config, requestCount,
                           closed, pluginId, reconnectTimer, orphanTimers>>
           /\ sent' = <<>>
           /\ notified' = <<>>
           /\ delayMs' = 0
        \/ ~CanDeliver
        \/ \A raw \in InvalidFrames : ~handleMessage(raw) ]_vars

\* C23 witness: a client still authenticating on its open socket after a step
\* that sent nothing, called nothing, closed nothing and set no timer, which
\* only the delivery of an invalid frame is
C23_Witness ==
    /\ ~closed
    /\ status = "authenticating"
    /\ ws # 0 /\ sock[ws] = "open"
    /\ sent = <<>> /\ notified = <<>> /\ delayMs = 0 /\ lastClose = NoClose
    /\ SingleSocket

\* the client holds an open socket
HasOpenSocket == ws # 0 /\ sock[ws] = "open"

\* the messages call c hands to sendMessage in the step
Handed(c) == SubSeq(out'[c], Len(out[c]) + 1, Len(out'[c]))

\* the step is the open event of a socket, which sends on the socket it opens
Opening == \E s \in SockIds : SocketOpen(s)

\* the state of the connection
Connection ==
    <<status, sock, ws, reconnectAttempt, config, closed, pluginId, reconnectTimer,
      orphanTimers>>

\* C24: a step that takes place while the client holds no open socket writes
\* nothing, whatever it hands to the send path: the pong of a ping, the
\* price update of updatePricing, the messages of a relay call; such a
\* send leaves the connection as it is (the pong and the price update
\* change nothing at all); and every message written is one the step that
\* writes it has produced, so none is kept and written later
C24_SendWithoutSocketDropped ==
    [][ /\ (~HasOpenSocket /\ ~Opening) => sent' = <<>>
        /\ \A raw \in PingFrames :
              (~HasOpenSocket /\ CanDeliver /\ handleMessage(raw)) =>
                  UNCHANGED <<Connection, requestCount, relayVars>>
        /\ \A p \in PriceUpdates :
              (~HasOpenSocket /\ updatePricing(p.inputTokenPrice, p.outputTokenPrice)) =>
                  UNCHANGED <<Connection, requestCount, relayVars>>
        /\ \A c \in Calls :
              (~HasOpenSocket /\ Handed(c) # <<>>) => UNCHANGED <<Connection, requestCount>>
        /\ \A i \in 1..Len(sent') :
              /\ sent'[i].sock = ws' /\ sock'[ws'] = "open"
              /\ CASE sent'[i].msg.type = "auth" -> SocketOpen(sent'[i].sock)
                   [] sent'[i].msg.type = "pong" ->
                         \E raw \in PingFrames :
                             handleMessage(raw) /\ sent'[i].msg.ts = raw.value.ts
                   [] sent'[i].msg.type = "price_update" ->
                         \E p \in PriceUpdates :
                             updatePricing(p.inputTokenPrice, p.outputTokenPrice)
                   [] OTHER ->
                         \E c \in Calls : \E k \in 1..Len(Handed(c)) :
                             Handed(c)[k] = sent'[i].msg ]_vars

\* C24 witness: after stop() the client holds no socket, the gateway has
\* answered a request taken before and the call has handed its response to
\* the send path, and nothing has been written
C24_Witness ==
    /\ closed /\ closedBy = "stop" /\ ws = 0 /\ status = "disconnected"
    /\ sent = <<>>
    /\ \E c \in Calls :
          /\ promise[c] = "returned"
          /\ out[c] # <<>>
          /\ out[c][Len(out[c])].type = "response"

\* the calls that have sent a successful terminal message
Succeeded == {c \in Calls : \E i \in 1..Len(out[c]) : out[c][i].type \in {"response", "stream_end"}}

\* C25: the served-request counter never exceeds the number of requests that
\* sent a response or a stream_end; a request that ended in an error message
\* does not count
C25_CounterCountsSuccesses == requestCount <= Cardinality(Succeeded)

\* base(k) = initialMs * factor^(k-1) of a policy, as the rational
\* BaseNum / BaseDen
BaseNum(policy, k) == policy.initialMs * Pow(policy.factor, k - 1)
BaseDen(policy, k) == Pow(policy.factorDen, k - 1)

\* min(maxMs, num/den) <= d, for rationals with den > 0
MinAtMost(maxMs, num, den, d) == maxMs <= d \/ num <= d * den

\* C26 as stated: for attempt k >= 1 the delay lies between
\* min(maxMs, base(k)) and min(maxMs, round(base(k) * (1 + jitter))), never
\* exceeds maxMs, and is 30000 for attempts 6 and 7 of the default policy
C26_DelayWithinBaseAndJitter ==
    backoff.attempt >= 1 =>
        LET p == backoff.policy
            k == backoff.attempt
        IN  /\ MinAtMost(p.maxMs, BaseNum(p, k), BaseDen(p, k), backoff.delay)
            /\ backoff.delay <= Min(p.maxMs, RoundDiv(BaseNum(p, k) * (100 + p.jitterPct),
                                                      BaseDen(p, k) * 100))
            /\ backoff.delay <= p.maxMs
            /\ (p = DEFAULT_RECONNECT_POLICY /\ k \in {6, 7}) => backoff.delay = 30000

\* C26 amended: for attempt k >= 1 the delay lies between
\* min(maxMs, round(base(k))) and min(maxMs, round(base(k) * (1 + jitter))),
\* never exceeds maxMs, and is 30000 for attempts 6 and 7 of the default policy
C26_DelayWithinRoundedBaseAndJitter ==
    backoff.attempt >= 1 =>
        LET p == backoff.policy
            k == backoff.attempt
        IN  /\ Min(p.maxMs, RoundDiv(BaseNum(p, k), BaseDen(p, k))) <= backoff.delay
            /\ backoff.delay <= Min(p.maxMs, RoundDiv(BaseNum(p, k) * (100 + p.jitterPct),
                                                      BaseDen(p, k) * 100))
            /\ backoff.delay <= p.maxMs
            /\ (p = DEFAULT_RECONNECT_POLICY /\ k \in {6, 7}) => backoff.delay = 30000

\* C26 witness: computeBackoff has returned the cap for attempt 7 of the
\* default policy
C26_Witness ==
    /\ backoff.policy = DEFAULT_RECONNECT_POLICY /\ backoff.attempt = 7
    /\ backoff.u > 0 /\ backoff.delay = 30000

\* the delay of attempt 0 equals the delay of attempt 1 under the same policy
\* and draw
AttemptZeroAsOne ==
    backoff.attempt = 0 => backoff.delay = computeBackoff(backoff.policy, 1, backoff.u)

\* C27 as stated: with jitter 0 the delay of attempt k >= 1 is exactly
\* min(maxMs, base(k)), whatever the draw; and attempt 0 gives the delay of
\* attempt 1
C27_NoJitterIsExactBase ==
    /\ (backoff.attempt >= 1 /\ backoff.policy.jitterPct = 0) =>
          LET p == backoff.policy
              k == backoff.attempt
          IN  IF p.maxMs * BaseDen(p, k) <= BaseNum(p, k)
              THEN backoff.delay = p.maxMs
              ELSE backoff.delay * BaseDen(p, k) = BaseNum(p, k)
    /\ AttemptZeroAsOne

\* C27 amended: with jitter 0 the delay of attempt k >= 1 is exactly
\* min(maxMs, round(base(k))), whatever the draw; and attempt 0 gives the
\* delay of attempt 1
C27_NoJitterIsRoundedBase ==
    /\ (backoff.attempt >= 1 /\ backoff.policy.jitterPct = 0) =>
          LET p == backoff.policy
              k == backoff.attempt
          IN  backoff.delay = Min(p.maxMs, RoundDiv(BaseNum(p, k), BaseDen(p, k)))
    /\ AttemptZeroAsOne

\* C27 witness: computeBackoff has returned 4000 for attempt 3 of the default
\* policy without jitter, under a draw that is not zero
C27_Witness ==
    /\ backoff.policy = [DEFAULT_RECONNECT_POLICY EXCEPT !.jitterPct = 0]
    /\ backoff.attempt = 3 /\ backoff.u > 0 /\ backoff.delay = 4000

\* body texts that are not JSON
BadBodies == {"{input:", ""}

\* C28: a proxied request whose body is not JSON is answered with 400, and
\* no fetch is made and no signature is requested for it; whenever a proxied
\* request has made a fetch its body was JSON
C28_BadBodyNeverReachesUpstream ==
    payCall.via = "proxy" =>
        /\ payCall.body \in BadBodies =>
              /\ proxyReplies = <<[status |-> 400, error |-> "Invalid JSON body"]>>
              /\ posts = <<>> /\ signCalls = 0 /\ auths = <<>>
        /\ posts # <<>> => payCall.body \notin BadBodies

\* C28 witness: the proxy has answered 400 to a body that is not JSON
C28_Witness ==
    /\ payCall.via = "proxy" /\ payCall.body = "{input:"
    /\ payPc = "replied" /\ proxyStatus = 400 /\ posts = <<>>

\* C29: the proxy writes at most one reply per request; when the upstream
\* exchange has failed (the call has thrown, or the body of the response it
\* returned cannot be read), the reply is due, and once written it is the one
\* reply, with status 502 and the message of the error
C29_UpstreamFailureIs502 ==
    /\ Len(proxyReplies) <= 1
    /\ (payCall.via = "proxy" /\ payOut.kind = "error") =>
          /\ payPc \in {"thrown", "replied"}
          /\ payPc = "thrown" => (proxyReplies = <<>> /\ ENABLED (\E sse \in BOOLEAN : ProxyReply(sse)))
          /\ payPc = "replied" =>
                proxyReplies = <<[status |-> 502, error |-> payOut.message]>>

\* the positions of the error messages among those call c handed over
Errors(c) == {i \in 1..Len(out[c]) : out[c][i].type = "error"}

\* C30: a call whose relay failed has handed over one error message under its
\* request id and no other terminal message, and the connection is as it
\* would be without the call: no socket, no timer, status as constructed
C30_FailureIsOneError ==
    \A c \in Calls :
        Errors(c) # {} =>
            /\ Cardinality(Errors(c)) = 1
            /\ Terminals(c) = Errors(c)
            /\ \A i \in Errors(c) : out[c][i].id = reqId[c]
            /\ status = "disconnected" /\ ws = 0 /\ reconnectTimer = "null"
            /\ \A s \in SockIds : sock[s] = "none"

\* the valid request frames
RequestFrames == {raw \in ValidFrames : raw.value.type = "request"}

\* some call of handleIncomingRequest awaits the gateway
Awaiting == \E c \in Calls : promise[c] = "pending"

\* the ping and request frames a serving session receives
AskingFrames ==
    {raw \in ServeFrames \cap ValidFrames : raw.value.type \in {"ping", "request"}}

\* the event loop takes frame raw from a socket that delivers
FrameStep(raw) ==
    FrameTurn /\ \E s \in Deliverers : ServeFrame(raw) /\ SocketMessage(s, raw)

\* while some call awaits the gateway, a socket delivers and no continuation
\* of a settled call is queued, the client takes a ping and a request frame
FramesHandledWhileAwaiting ==
    (Awaiting /\ CanDeliver /\ FrameTurn /\ FreeCalls \cap PairCalls # {}) =>
        \A raw \in AskingFrames : ENABLED FrameStep(raw)

\* C31: while some call awaits the gateway, ping and request frames are
\* handled; a ping delivered to a client with an open socket is answered in
\* the step that handles it and leaves every call as it was; a request frame
\* starts a call under its id in the step that handles it and leaves the
\* other calls awaiting
C31_ServedWhileAwaiting ==
    /\ []FramesHandledWhileAwaiting
    /\ [][ (Awaiting /\ CanDeliver) =>
          /\ \A raw \in PingFrames :
                handleMessage(raw) =>
                    /\ HasOpenSocket =>
                          sent' = <<[sock |-> ws,
                                     msg |-> [type |-> "pong", ts |-> raw.value.ts]]>>
                    /\ UNCHANGED <<promise, tr, out>>
          /\ \A raw \in RequestFrames :
                handleMessage(raw) =>
                    \E d \in Calls :
                        /\ tr[d] = "none" /\ tr'[d] \in {"waiting", "closed"}
                        /\ reqId'[d] = raw.value.id
                        /\ \A c \in Calls \ {d} :
                              promise'[c] = promise[c] /\ tr'[c] = tr[c] ]_vars

\* C31 witness: a ping has been answered on the open socket while two calls
\* under different ids await the gateway
C31_Witness ==
    /\ HasOpenSocket
    /\ sent = <<[sock |-> ws, msg |-> [type |-> "pong", ts |-> 11]]>>
    /\ \E c, d \in Calls :
          /\ promise[c] = "pending" /\ promise[d] = "pending"
          /\ reqId[c] = "req-a" /\ reqId[d] = "req-b"

\* C32: every call of handleIncomingRequest eventually hands a terminal
\* message (response, stream_end or error) to the send path
C32_EveryRequestEnds ==
    \A c \in Calls : (tr[c] # "none") ~> (Terminals(c) # {})

\* C33: the close of a socket of a client that is not closed (not stopped,
\* no auth_error) leaves the status reconnecting with a timer pending, and
\* from reconnecting the client gets to connecting with a new socket unless
\* it is closed meanwhile
C33_CloseLeadsToConnecting ==
    /\ [][ \A s \in SockIds, code \in CloseCodes :
              (~closed /\ SocketClose(s, code)) =>
                  status' = "reconnecting" /\ reconnectTimer' = "pending" ]_vars
    /\ (status = "reconnecting" /\ ~closed)
          ~> (closed \/ (status = "connecting" /\ ws # 0 /\ sock[ws] = "connecting"))

\* C33 witness: a client that lost its socket has connected again from the
\* timer, for the second time in a row, and was never closed in between
C33_Witness ==
    /\ ~closed /\ status = "connecting" /\ timerSock # 0 /\ ws = timerSock
    /\ sock[ws] = "connecting" /\ reconnectAttempt = 2 /\ reconnectTimer = "null"

\* C34: the open event of a socket writes one auth message, with the stored
\* credential and the protocol version, to that socket and makes the status
\* authenticating; an auth message is written only by the open event of the
\* socket it is written to; and the status leaves authenticating only by an
\* auth_ok or auth_error frame, a close event or stop()
C34_AuthOnOpen ==
    [][ /\ \A s \in SockIds :
              SocketOpen(s) =>
                  /\ sent' = <<[sock |-> s, msg |-> AuthMessage(config)]>>
                  /\ status' = "authenticating"
        /\ \A i \in 1..Len(sent') :
              sent'[i].msg.type = "auth" => SocketOpen(sent'[i].sock)
        /\ (status = "authenticating" /\ status' # "authenticating") =>
              \/ Stop
              \/ \E s \in SockIds, code \in CloseCodes : SocketClose(s, code)
              \/ \E raw \in AuthOkFrames \cup AuthErrorFrames :
                    CanDeliver /\ handleMessage(raw) ]_vars

\* the pong of a ping delivered on socket s is written to s
PongOnArrivalSocket ==
    [][ \A s \in SockIds, raw \in PingFrames :
          SocketMessage(s, raw) => \A i \in 1..Len(sent') : sent'[i].sock = s ]_vars

\* C35: the reply to a frame is written to the socket that delivered the
\* frame and to no other, and only once the client is connected: before
\* auth_ok nothing but the auth message is written
C35_RepliesOnlyWhereAsked ==
    [][ /\ \A s \in SockIds, raw \in PingFrames :
              SocketMessage(s, raw) => \A i \in 1..Len(sent') : sent'[i].sock = s
        /\ \A i \in 1..Len(sent') :
              sent'[i].msg.type # "auth" => status = "connected" ]_vars

\* C36: onStatusChange reports the status the client has: the .then of a
\* request, which counts the request and reports "connected", runs only
\* while the status is connected
C36_ReportedStatusIsActual ==
    [][ requestCount' # requestCount => status' = "connected" ]_vars

\* the status agrees with the socket reference
StatusMatchesReference ==
    /\ status \in {"authenticating", "connected"} => ws # 0
    /\ status \in {"reconnecting", "disconnected"} => ws = 0

\* the close event of a socket that is not the current one leaves the
\* reference and the status alone
StaleCloseIsIgnored ==
    [][ \A s \in SockIds, code \in CloseCodes :
          (s # ws /\ SocketClose(s, code)) => (ws' = ws /\ status' = status) ]_vars

\* C37: authenticating and connected go with a socket reference,
\* reconnecting and disconnected with none, and the close event of a socket
\* that is not the current one changes neither the reference nor the status
C37_StatusAndReferenceAgree == []StatusMatchesReference /\ StaleCloseIsIgnored

\* the timers that have been set and have neither fired nor been cleared
TimersPending == (IF reconnectTimer = "pending" THEN 1 ELSE 0) + orphanTimers

\* C38: at most one reconnect timer is pending, and only while the status is
\* reconnecting; stop() leaves none; only the firing of a timer takes the
\* status from reconnecting to connecting
C38_OneTimerWhileReconnecting ==
    /\ [](TimersPending <= 1 /\ (TimersPending > 0 => status = "reconnecting"))
    /\ [][ /\ Stop => TimersPending' = 0
           /\ (status = "reconnecting" /\ status' = "connecting") =>
                 (TimerFire \/ OrphanTimerFire) ]_vars

\* the delays computeBackoff can return for the k-th attempt
AttemptDelays(k) == {computeBackoff(DEFAULT_RECONNECT_POLICY, k, u) : u \in UDraws}

\* C39: a close that schedules a reconnect adds exactly 1 to the attempt
\* counter (counted from 0 after a restart-code close) and computes the delay
\* from the new value, which is at least 1; the counter changes in no other
\* way than by such a close, a restart-code close or a valid auth_ok, so a
\* socket that opens and closes before auth_ok does not reset it
C39_CounterCountsFailures ==
    [][ /\ \A s \in SockIds, code \in CloseCodes :
              (~closed /\ SocketClose(s, code)) =>
                  /\ reconnectAttempt' =
                        (IF code = CLOSE_RESTART THEN 0 ELSE reconnectAttempt) + 1
                  /\ reconnectAttempt' >= 1
                  /\ delayMs' \in AttemptDelays(reconnectAttempt')
        /\ \A s \in SockIds : SocketOpen(s) => reconnectAttempt' = reconnectAttempt
        /\ reconnectAttempt' # reconnectAttempt =>
              \/ \E s \in SockIds, code \in CloseCodes :
                    SocketClose(s, code) /\ (~closed \/ code = CLOSE_RESTART)
              \/ \E raw \in AuthOkFrames : CanDeliver /\ handleMessage(raw) ]_vars

\* C39 witness: a socket that had opened closed, with a code other than the
\* restart code, while the counter stood at 1 from an earlier failure: the
\* reconnect was scheduled with the counter at 2 and the delay of attempt 2
C39_Witness ==
    /\ ~closed
    /\ lastClose.code = CLOSE_NORMAL
    /\ lastClose.attempt = 1
    /\ reconnectAttempt = 2
    /\ delayMs \in AttemptDelays(2)
    /\ delayMs \notin Attempt1Delays
    /\ reconnectTimer = "pending"

\* the X-PAYMENT header value of a POST that carries one
XPayment(post) == (CHOOSE h \in post.headers : h[1] = "X-PAYMENT")[2]

\* C40: the token signPermit2Payment returns encodes a payload whose asset,
\* amount, nonce and deadline are those of the typed data handed to the
\* signer (the amount and the nonce as text that reads as the signed
\* number), whose sender is the signer's address and whose signature is what
\* the signer returned for that typed data; the deadline is a clock value of
\* the call, in whole seconds, plus the requirement's timeout; the retry the
\* caller then posts carries that token as its X-PAYMENT header; and when
\* the signer fails the call throws, no token is built and no retry is posted
C40_TokenMatchesSignedData ==
    [][ /\ (payPc # "signing" /\ payPc' = "signing") =>
              /\ pending'.typedData.message.nonce \in now..now'
              /\ pending'.typedData.message.deadline \in
                    {(t \div 1000) + pending'.requirements.maxTimeoutSeconds : t \in now..now'}
        /\ SignerReturns =>
              LET payload == auths'[Len(auths')]
                  typed   == pending.typedData
              IN  /\ Len(auths') = Len(auths) + 1
                  /\ posts' = posts
                  /\ payload.permit.permitted.token = typed.message.permitted.token
                  /\ BigInt(payload.permit.permitted.amount) =
                        [nan |-> FALSE, value |-> typed.message.permitted.amount]
                  /\ payload.permit.nonce = ToString(typed.message.nonce)
                  /\ payload.permit.deadline = typed.message.deadline
                  /\ payload.sender = payCall.config.signer.address
                  /\ payload.signature = signTypedData(payCall.config.signer, typed)
        /\ PostRetry =>
              /\ Len(posts') = Len(posts) + 1
              /\ XPayment(posts'[Len(posts')]) = btoa(auths[Len(auths)])
              /\ auths' = auths
        /\ SignerThrows =>
              /\ payPc' = "thrown"
              /\ payOut'.kind = "error"
              /\ posts' = posts
              /\ auths' = auths ]_vars

\* C40 witness: a retry carries a token for an amount written "0x10" and
\* signed as 16, with the nonce read at 1999 ms and the deadline computed
\* from the next clock value, 2000 ms: 2 s plus the timeout of 60 s
C40_Witness ==
    /\ payCall.signed
    /\ Len(posts) = 2
    /\ LET payload == XPayment(posts[2]).base64
       IN  /\ payload.permit.permitted.amount = "0x10"
           /\ payload.signature.over.message.permitted.amount = 16
           /\ payload.permit.nonce = "1999"
           /\ payload.permit.deadline = 62
           /\ payload.sender = "0xSigner"

====
